---- MODULE Spec2Model ----
(***************************************************************************)
(* The filesystem IPC mailbox of nanoclawbster: the agent-side writer      *)
(* (container/agent-runner/src/ipc-mcp-stdio.ts) and the host-side poll    *)
(* loop with its task dispatcher (startIpcWatcher / processTaskIpc, the    *)
(* second half of src/src/channels/discord.ts).                            *)
(***************************************************************************)
EXTENDS Integers, Sequences, FiniteSets, TLC

VARIABLES
    mailbox,           \* request files under data/ipc/<ns>/{messages,tasks}
    errors,            \* files under data/ipc/errors
    nextId,            \* next fresh filename (Date.now()-random, increasing)
    registeredGroups,  \* deps.registeredGroups(): jid -> folder
    tasks,             \* the task store (db.ts): task id -> record
    nextTask,          \* next fresh task id (task-<now>-<random>)
    createdFrom,       \* history: task id -> namespace whose request created it
    updates,           \* history: the (task id, status) pairs given to updateTask
    sent,              \* history: outbound deps.sendMessage calls that went out
    syncedBy,          \* history: files whose handling ran syncGroupMetadata
    builtBy,           \* history: files whose handling ran a build command
    steps,             \* history: the commands the last build or deploy ran
    head,              \* the revision checked out in the project root
    buildResult,       \* dev-workspace/.build-result.json
    TIMEZONE,          \* config: the time zone of schedules
    localZone,         \* the time zone of the host process (TZ, or the system's)
    queue,             \* GroupQueue: conversation -> its invocation and pending list
    registry,          \* registered_groups.json: the groups in the order they
                       \* were added, and what registerGroup returned last
    clock,             \* the host's clock, in ms from 2026-02-01T00:00Z, and
                       \* how often it has been seen to move
    fired,             \* history: task id -> the times the scheduler fired it
    restartFlag,       \* the namespaces whose group folder has restarting.flag
    refused,           \* history: the tool call that returned an error last
    attachments,       \* the files under data/ipc/<ns>/attachments, as paths
    routed,            \* history: the inbound message routed last and how, or the
                       \* invocation that closed or exited last
    alive,             \* the host process is running
    poll,              \* position of processIpcFiles
    watcher,           \* ipcWatcherRunning, and history: the loops started, the
                       \* startIpcWatcher calls, the timers set and the cycles
                       \* under way
    acted,             \* history: file id -> times the poll loop handled it
    last               \* history: the request handled last, and how it ended

vars == <<mailbox, errors, nextId, registeredGroups, tasks, nextTask,
          createdFrom, updates, sent, syncedBy, builtBy, steps, head, buildResult,
          TIMEZONE, localZone, queue, registry, clock, fired, restartFlag, refused, attachments, routed, alive,
          poll, watcher, acted, last>>

----------------------------------------------------------------------------
(* Bounds *)

MaxFiles == 2

\* entries that may wait in one conversation's pending list
MaxPending == 2

\* entries one conversation is brought in all
MaxEntries == MaxPending + 1

\* texts piped into one invocation
MaxPiped == 1

\* moves of the clock that are looked at
MaxMoves == 2

\* the startIpcWatcher calls looked at in one process
MaxCalls == 3

----------------------------------------------------------------------------
(* Namespaces and conversations *)

MAIN_GROUP_FOLDER == "main"

Folders == {"main", "alice", "bob"}

\* namespaces whose invocations write request files
Writers == {"main", "alice"}

NoGroup == "none"

Jids == {"jid_main", "jid_alice", "jid_bob", "jid_new"}

\* the chat an invocation of a namespace runs for (NANOCLAWBSTER_CHAT_JID)
chatJid(ns) == CASE ns = "main" -> "jid_main"
                 [] ns = "alice" -> "jid_alice"
                 [] OTHER -> "jid_bob"

FileIds == 1..MaxFiles

----------------------------------------------------------------------------
(* IPC requests: the JSON object of one request file.  One record shape for *)
(* every type; "-", 0 and <<>> stand for an absent field.  jid is chatJid   *)
(* (message), targetJid (schedule_task) or jid (register_group).            *)

Absent == "-"

Req(type, jid, stype, svalue, taskId, folder) ==
    [type |-> type, jid |-> jid, text |-> "hi",
     schedule_type |-> stype, schedule_value |-> svalue,
     taskId |-> taskId, folder |-> folder, files |-> <<>>,
     groupFolder |-> Absent, isMain |-> FALSE, createdBy |-> Absent]

\* the payload's self-declared identity fields
WithIdentity(r, gf, im, cb) ==
    [r EXCEPT !.groupFolder = gf, !.isMain = im, !.createdBy = cb]

NoReq == Req(Absent, Absent, Absent, <<>>, 0, Absent)

----------------------------------------------------------------------------
(* Schedule values.  A string is a sequence of symbols: one-character       *)
(* symbols where parseInt reads them, whole-text symbols otherwise.         *)

Digits == {"0", "1", "2", "3", "4", "5", "6", "7", "8", "9"}

DigitVal(c) == CASE c = "0" -> 0 [] c = "1" -> 1 [] c = "2" -> 2 [] c = "3" -> 3
                 [] c = "4" -> 4 [] c = "5" -> 5 [] c = "6" -> 6 [] c = "7" -> 7
                 [] c = "8" -> 8 [] OTHER -> 9

NaN == [isNaN |-> TRUE, n |-> 0]

Num(k) == [isNaN |-> FALSE, n |-> k]

RECURSIVE DigitPrefix(_)
\* the longest prefix of s made of decimal digits
DigitPrefix(s) ==
    IF s = <<>> \/ Head(s) \notin Digits THEN <<>>
    ELSE <<Head(s)>> \o DigitPrefix(Tail(s))

RECURSIVE DecValue(_, _)
DecValue(s, acc) ==
    IF s = <<>> THEN acc ELSE DecValue(Tail(s), 10 * acc + DigitVal(Head(s)))

RECURSIVE SkipSpaces(_)
SkipSpaces(s) == IF s # <<>> /\ Head(s) = " " THEN SkipSpaces(Tail(s)) ELSE s

\* parseInt(s, 10): leading blanks, an optional sign, then the longest run
\* of digits; whatever follows is ignored; no digit gives NaN
parseInt(str) ==
    LET s    == SkipSpaces(str)
        neg  == s # <<>> /\ Head(s) = "-"
        body == IF s # <<>> /\ Head(s) \in {"-", "+"} THEN Tail(s) ELSE s
        ds   == DigitPrefix(body)
    IN  IF ds = <<>> THEN NaN
        ELSE IF neg THEN Num(0 - DecValue(ds, 0)) ELSE Num(DecValue(ds, 0))

\* the text is a positive number: blanks, then digits and nothing else (what
\* the interval value is documented to be: "milliseconds like 300000")
IsPositiveNumber(str) ==
    LET s == SkipSpaces(str)
    IN  /\ s # <<>>
        /\ DigitPrefix(s) = s
        /\ DecValue(s, 0) > 0

CronEvery == <<"*/5 * * * *">>
CronBad   == <<"not-a-cron">>
OnceGood  == <<"2026-02-01T15:30:00">>
OnceBad   == <<"next tuesday-ish">>
OnceZulu  == <<"2026-02-01T15:30:00", "Z">>
OnceAhead == <<"2026-02-01T15:30:00", "+05:30">>

\* CronExpressionParser.parse succeeds
cronParses(v) == v = CronEvery

\* !isNaN(new Date(v).getTime())
dateValid(v) == v \in {OnceGood, OnceZulu, OnceAhead}

\* /[Zz]$/.test(v) || /[+-]\d{2}:\d{2}$/.test(v)
hasZoneSuffix(v) == v # <<>> /\ v[Len(v)] \in {"Z", "z", "+05:30", "-08:00"}

IntervalSamples ==
    {<<"5">>, <<"0">>, <<"-", "5">>, <<"5", "m">>, <<"m">>, <<" ", "7">>}

----------------------------------------------------------------------------
(* The host state a task request can touch, bundled so that the dispatcher  *)
(* is a function of (request, namespace, state, outcome of external calls). *)

HostState ==
    [registeredGroups |-> registeredGroups, tasks |-> tasks,
     nextTask |-> nextTask, createdFrom |-> createdFrom, updates |-> updates,
     syncedBy |-> syncedBy, builtBy |-> builtBy, steps |-> steps,
     head |-> head, buildResult |-> buildResult, localZone |-> localZone,
     now |-> clock.now, registry |-> registry]

\* outcomes of the external calls a handler makes
\* buildOk: the build command of the handler; depOk: syncGroupMetadata, or
\* the git commands of pull_and_deploy before its build; undo: how the
\* rollback of pull_and_deploy goes ("ok", or the command of it that fails)
Env == [buildOk : BOOLEAN, depOk : BOOLEAN, undo : {"ok", "reset", "build"}]

\* the outcomes the handler of a request type depends on: the calls it does
\* not make are given one outcome
EnvOf(type) ==
    CASE type = "pull_and_deploy" -> Env
      [] type \in {"restart", "rebuild", "test_container_build"} ->
             {e \in Env : e.depOk /\ e.undo = "ok"}
      [] type = "refresh_groups" -> {e \in Env : e.buildOk /\ e.undo = "ok"}
      [] OTHER -> {e \in Env : e.buildOk /\ e.depOk /\ e.undo = "ok"}

Return(st) == [st |-> st, out |-> "return"]
Throw(st)  == [st |-> st, out |-> "throw"]
Exit(st)   == [st |-> st, out |-> "exit"]

Zones == {"UTC", "America/Los_Angeles"}

\* minutes a zone's wall clock is ahead of UTC on the sample date
ZoneOffset(zone) == IF zone = "America/Los_Angeles" THEN 0 - 480 ELSE 0

MinutesPerDay == 1440

\* the date and time of day a zone-less timestamp text spells out, in days
\* from 2026-02-01 and minutes from midnight
WallClock(v) ==
    IF v = OnceGood THEN [day |-> 0, minute |-> 15 * 60 + 30]
    ELSE [day |-> 0, minute |-> 0]

\* the instant, in minutes from 2026-02-01T00:00Z, at which the clocks of
\* the zone show that date and time
InstantIn(wall, zone) == wall.day * MinutesPerDay + wall.minute - ZoneOffset(zone)

\* Date.prototype.toISOString: the instant as a UTC date and time
toISOString(instant) ==
    [day |-> instant \div MinutesPerDay, minute |-> instant % MinutesPerDay]

NoIso == [day |-> 0, minute |-> 0]

\* new Date(text) for a text without a zone suffix: the text is read as
\* local time of the process
newDate(v, local) == InstantIn(WallClock(v), local)

NullRun == [kind |-> "null", ms |-> 0, text |-> <<>>, iso |-> NoIso]

MsPerMinute == 60000

\* the next occurrence of the cron sample after a time: every fifth minute
cronNext(now) == (now \div (5 * MsPerMinute) + 1) * (5 * MsPerMinute)

\* nextRun as schedule_task computes it, once the value has been accepted
nextRunOf(stype, svalue, local, now) ==
    CASE stype = "cron"     -> [kind |-> "cron", ms |-> cronNext(now), text |-> svalue,
                                iso |-> NoIso]
      [] stype = "interval" -> [kind |-> "interval", ms |-> now + parseInt(svalue).n,
                                text |-> <<>>, iso |-> NoIso]
      [] stype = "once"     -> [kind |-> "once", ms |-> 0, text |-> <<>>,
                                iso |-> toISOString(newDate(svalue, local))]
      [] OTHER              -> NullRun

\* the schedule_value checks of schedule_task: TRUE when the handler breaks
scheduleRejected(stype, svalue) ==
    CASE stype = "cron"     -> ~cronParses(svalue)
      [] stype = "interval" -> parseInt(svalue).isNaN \/ parseInt(svalue).n <= 0
      [] stype = "once"     -> ~dateValid(svalue)
      [] OTHER              -> FALSE

\* db.createTask
createTask(st, t, sourceGroup) ==
    [st EXCEPT !.tasks = [i \in DOMAIN st.tasks \cup {st.nextTask} |->
                             IF i = st.nextTask THEN t ELSE st.tasks[i]],
               !.createdFrom = [i \in DOMAIN st.tasks \cup {st.nextTask} |->
                             IF i = st.nextTask THEN sourceGroup ELSE st.createdFrom[i]],
               !.nextTask = st.nextTask + 1]

\* db.updateTask(id, {status})
updateTask(st, id, status) ==
    [st EXCEPT !.tasks[id].status = status,
               !.updates = @ \cup {<<id, status>>}]

\* db.deleteTask(id)
deleteTask(st, id) ==
    [st EXCEPT !.tasks = [i \in DOMAIN st.tasks \ {id} |-> st.tasks[i]],
               !.createdFrom = [i \in DOMAIN st.tasks \ {id} |-> st.createdFrom[i]]]

\* the time in ms at which a stored next_run falls
runTime(run) ==
    IF run.kind = "once"
    THEN (run.iso.day * MinutesPerDay + run.iso.minute) * MsPerMinute
    ELSE run.ms

\* the scheduler selects the task at a tick: active, and next_run is due
isDue(t, now) ==
    /\ t.status = "active"
    /\ t.next_run.kind # "null"
    /\ runTime(t.next_run) <= now

\* a scheduler that counts an interval on from the time the task was due
afterFireFromDue(t, now) ==
    CASE t.schedule_type = "interval" ->
             [t EXCEPT !.next_run.ms = @ + parseInt(t.schedule_value).n]
      [] t.schedule_type = "cron" -> [t EXCEPT !.next_run.ms = cronNext(now)]
      [] OTHER -> [t EXCEPT !.status = "fired", !.next_run = NullRun]

\* the task after it has fired: interval and cron tasks get their next
\* run, a once task is in its terminal state
afterFire(t, now) ==
    CASE t.schedule_type = "interval" ->
             [t EXCEPT !.next_run.ms = now + parseInt(t.schedule_value).n]
      [] t.schedule_type = "cron" -> [t EXCEPT !.next_run.ms = cronNext(now)]
      [] OTHER -> [t EXCEPT !.status = "fired", !.next_run = NullRun]

\* a host that lets any namespace act on any stored task
taskAuthorizedAny(st, id, sourceGroup, isMain) == id \in DOMAIN st.tasks

\* the authorization test of pause_task, resume_task and cancel_task
taskAuthorized(st, id, sourceGroup, isMain) ==
    /\ id \in DOMAIN st.tasks
    /\ (isMain \/ st.tasks[id].group_folder = sourceGroup)

\* group-folder.ts isValidGroupFolder
isValidGroupFolder(folder) == folder \in {"main", "alice", "bob", "carol"}

\* the folders of the groups in registered_groups.json
registeredFolders(st) ==
    {st.registry.groups[i].folder : i \in DOMAIN st.registry.groups}

\* a registerGroup that maps the conversation to the new group, whatever
\* it was mapped to
registerGroupReplacing(st, jid, folder) ==
    IF folder \in registeredFolders(st)
    THEN [st EXCEPT !.registry.result = "alreadyExisted"]
    ELSE [st EXCEPT !.registry.groups = Append(@, [jid |-> jid, folder |-> folder]),
                    !.registry.result = "added",
                    !.registeredGroups[jid] = folder]

\* a registerGroup that does not look for the folder among the groups
registerGroupAnyFolder(st, jid, folder) ==
    [st EXCEPT !.registry.groups = Append(@, [jid |-> jid, folder |-> folder]),
               !.registry.result = "added",
               !.registeredGroups[jid] = IF @ = NoGroup THEN folder ELSE @]

\* deps.registerGroup(jid, group): index.ts registerGroup returns
\* alreadyExisted for a folder that some group has, and appends the group
\* otherwise; a conversation is looked up as the first group that matches
registerGroup(st, jid, folder) ==
    IF folder \in registeredFolders(st)
    THEN [st EXCEPT !.registry.result = "alreadyExisted"]
    ELSE [st EXCEPT !.registry.groups = Append(@, [jid |-> jid, folder |-> folder]),
                    !.registry.result = "added",
                    !.registeredGroups[jid] = IF @ = NoGroup THEN folder ELSE @]

\* a host that lets any namespace schedule for any registered group
targetAllowedAny(targetFolder, sourceGroup, isMain) == TRUE

\* the authorization test of schedule_task: non-main groups can only
\* schedule for themselves
targetAllowed(targetFolder, sourceGroup, isMain) ==
    isMain \/ targetFolder = sourceGroup

scheduleTask(data, sourceGroup, isMain, st) ==
    IF data.text = "" \/ data.schedule_type = Absent
         \/ data.schedule_value = <<>> \/ data.jid = Absent
    THEN Return(st)
    ELSE IF data.jid \notin DOMAIN st.registeredGroups
              \/ st.registeredGroups[data.jid] = NoGroup
    THEN Return(st)
    ELSE LET targetFolder == st.registeredGroups[data.jid] IN
         IF ~targetAllowed(targetFolder, sourceGroup, isMain) THEN Return(st)
         ELSE IF scheduleRejected(data.schedule_type, data.schedule_value)
         THEN Return(st)
         ELSE Return(createTask(st,
                  [group_folder |-> targetFolder, chat_jid |-> data.jid,
                   schedule_type |-> data.schedule_type,
                   schedule_value |-> data.schedule_value,
                   next_run |-> nextRunOf(data.schedule_type, data.schedule_value,
                                          st.localZone, st.now),
                   status |-> "active"], sourceGroup))

\* a resume_task case copied from pause_task with the status left as it was
statusTaskResumePauses(data, sourceGroup, isMain, st) ==
    IF data.taskId = 0 \/ ~taskAuthorized(st, data.taskId, sourceGroup, isMain)
    THEN Return(st)
    ELSE CASE data.type = "pause_task"  -> Return(updateTask(st, data.taskId, "paused"))
           [] data.type = "resume_task" -> Return(updateTask(st, data.taskId, "paused"))
           [] OTHER                     -> Return(deleteTask(st, data.taskId))

\* the pause_task, resume_task and cancel_task cases
statusTask(data, sourceGroup, isMain, st) ==
    IF data.taskId = 0 \/ ~taskAuthorized(st, data.taskId, sourceGroup, isMain)
    THEN Return(st)
    ELSE CASE data.type = "pause_task"  -> Return(updateTask(st, data.taskId, "paused"))
           [] data.type = "resume_task" -> Return(updateTask(st, data.taskId, "active"))
           [] OTHER                     -> Return(deleteTask(st, data.taskId))

refreshGroups(sourceGroup, isMain, st, env, fid) ==
    IF ~isMain THEN Return(st)
    ELSE IF env.depOk
         THEN Return([st EXCEPT !.syncedBy = @ \cup {fid}])
         ELSE Throw([st EXCEPT !.syncedBy = @ \cup {fid}])

registerGroupTask(data, isMain, st) ==
    IF ~isMain THEN Return(st)
    ELSE IF data.jid = Absent \/ data.folder = Absent THEN Return(st)
    ELSE IF ~isValidGroupFolder(data.folder) THEN Return(st)
    ELSE Return(registerGroup(st, data.jid, data.folder))

\* a restart that builds and goes back to the loop
restartTaskReturning(st, env, fid) ==
    Return([st EXCEPT !.builtBy = @ \cup {fid},
                      !.steps = <<IF env.buildOk THEN "build" ELSE "build failed">>])

\* restart and rebuild: build (a failure is logged), then process.exit(0)
restartTask(st, env, fid) ==
    Exit([st EXCEPT !.builtBy = @ \cup {fid},
                    !.steps = <<IF env.buildOk THEN "build" ELSE "build failed",
                                "exit">>])

\* a test build that reports successes only
testContainerBuildQuietFailure(isMain, st, env, fid) ==
    IF ~isMain THEN Return(st)
    ELSE IF env.buildOk
         THEN Return([st EXCEPT !.builtBy = @ \cup {fid},
                                !.steps = <<"test build">>,
                                !.buildResult = "success"])
         ELSE Return([st EXCEPT !.builtBy = @ \cup {fid},
                                !.steps = <<"test build failed">>])

\* test_container_build: docker build in the dev workspace, the result
\* written from the try and from the catch, no process.exit
testContainerBuild(isMain, st, env, fid) ==
    IF ~isMain THEN Return(st)
    ELSE Return([st EXCEPT !.builtBy = @ \cup {fid},
                           !.steps = <<IF env.buildOk THEN "test build"
                                       ELSE "test build failed">>,
                           !.buildResult = IF env.buildOk THEN "success" ELSE "failure"])

\* a deploy that leaves the failed build as it is
rollbackSkipped(st, env) == st

\* the catch of the build of pull_and_deploy: git reset --hard previousHead,
\* npm install, npm run build, all inside one try
rollback(st, env) ==
    CASE env.undo = "reset" ->
           [st EXCEPT !.steps = @ \o <<"reset previous failed">>]
      [] env.undo = "build" ->
           [st EXCEPT !.head = "previous",
                      !.steps = @ \o <<"reset previous", "rebuild failed">>]
      [] OTHER ->
           [st EXCEPT !.head = "previous",
                      !.steps = @ \o <<"reset previous", "rebuild">>]

\* pull_and_deploy: rev-parse HEAD and fetch/reset (either failing aborts the
\* deploy with a break), build, rollback when the build fails, exit
pullAndDeploy(isMain, st, env, fid) ==
    IF ~isMain THEN Return(st)
    ELSE IF ~env.depOk THEN Return([st EXCEPT !.steps = <<"pull failed">>])
    ELSE LET pulled == [st EXCEPT !.head = "remote", !.builtBy = @ \cup {fid}]
             built  == IF env.buildOk
                       THEN [pulled EXCEPT !.steps = <<"pull", "build">>]
                       ELSE rollback([pulled EXCEPT
                                         !.steps = <<"pull", "build failed">>], env)
         IN  Exit([built EXCEPT !.steps = @ \o <<"exit">>])

\* an unknown type that brings the process down
unknownTaskExiting(st) == Exit(st)

\* the default case: the type is logged as unknown
unknownTask(st) == Return(st)

\* the switch over data.type
dispatchTask(data, sourceGroup, isMain, st, env, fid) ==
    CASE data.type = "schedule_task"   -> scheduleTask(data, sourceGroup, isMain, st)
      [] data.type \in {"pause_task", "resume_task", "cancel_task"}
                                       -> statusTask(data, sourceGroup, isMain, st)
      [] data.type = "refresh_groups"  -> refreshGroups(sourceGroup, isMain, st, env, fid)
      [] data.type = "register_group"  -> registerGroupTask(data, isMain, st)
      [] data.type \in {"restart", "rebuild"} -> restartTask(st, env, fid)
      [] data.type = "test_container_build" -> testContainerBuild(isMain, st, env, fid)
      [] data.type = "pull_and_deploy" -> pullAndDeploy(isMain, st, env, fid)
      [] OTHER                         -> unknownTask(st)

\* a dispatcher that believes the payload's isMain
processTaskIpcTrustingPayload(data, sourceGroup, isMain, st, env, fid) ==
    dispatchTask(data, sourceGroup, isMain \/ data.isMain, st, env, fid)

\* processTaskIpc(data, sourceGroup, isMain, deps): sourceGroup and isMain
\* come from the directory the file was found in
processTaskIpc(data, sourceGroup, isMain, st, env, fid) ==
    dispatchTask(data, sourceGroup, isMain, st, env, fid)

----------------------------------------------------------------------------
(* Files.  A request file is named <id>.json, or <id>.json.tmp while the    *)
(* writer has not renamed it; whole is FALSE while its text is incomplete.  *)
(* body tells what JSON.parse makes of a whole file: an object (data), the  *)
(* JSON value null, or a syntax error.                                      *)

File(id, ns, q, ext, whole, body, data) ==
    [id |-> id, ns |-> ns, q |-> q, ext |-> ext, whole |-> whole,
     body |-> body, data |-> data]

\* the sub-queue a tool writes a request of this type to
queueOf(type) == IF type = "message" THEN "messages" ELSE "tasks"

\* a writer without the temporary name: the text is written under <id>.json
writeIpcFileInPlace(id, ns, data) ==
    File(id, ns, queueOf(data.type), "json", FALSE, "object", data)

\* writeIpcFile, first half: writeFileSync(tempPath, ...) has begun
writeIpcFile(id, ns, data) ==
    File(id, ns, queueOf(data.type), "tmp", FALSE, "object", data)

\* writeIpcFile, second half: the text is complete and renameSync has run
renameIpcFile(f) == [f EXCEPT !.ext = "json", !.whole = TRUE]

\* readdirSync(dir).filter(f => f.endsWith('.json'))
jsonFiles(mb, ns, q) == {f \in mb : f.ns = ns /\ f.q = q /\ f.ext = "json"}

\* JSON.parse(fs.readFileSync(filePath)) throws
parseThrows(f) == ~f.whole \/ f.body = "garbage"

fileById(mb, id) == CHOOSE f \in mb : f.id = id

exists(mb, id) == \E f \in mb : f.id = id

\* fs.unlinkSync(filePath)
unlink(mb, id) == {f \in mb : f.id # id}

\* the file as it lies in errors/ once renamed to <sourceGroup>-<file>
errorFile(f, sourceGroup) ==
    [id |-> f.id, ns |-> sourceGroup, q |-> f.q, body |-> f.body,
     whole |-> f.whole, data |-> f.data]

RECURSIVE Perms(_)
\* every order in which readdirSync may list the members of S
Perms(S) ==
    IF S = {} THEN {<<>>}
    ELSE UNION {{<<x>> \o p : p \in Perms(S \ {x})} : x \in S}

Idle == [pc |-> "idle", todo |-> <<>>, list |-> <<>>]

\* the history record of one handled file
Handled(f, sourceGroup, out) ==
    [id |-> f.id, ns |-> sourceGroup, q |-> f.q, body |-> f.body,
     whole |-> f.whole, data |-> f.data, out |-> out]

NoLast ==
    [id |-> 0, ns |-> Absent, q |-> Absent, body |-> Absent, whole |-> TRUE,
     data |-> NoReq, out |-> Absent]

----------------------------------------------------------------------------
(* What the MCP tools of an invocation write (ipc-mcp-stdio.ts).            *)

\* NANOCLAWBSTER_IS_MAIN of the invocation running for namespace ns
\* no process: no flag, no loop, no timer
NoWatcher ==
    [ipcWatcherRunning |-> FALSE, loops |-> 0, calls |-> 0, pending |-> 0,
     running |-> 0]

\* a startIpcWatcher without the flag
startIpcWatcherUnguarded(w) ==
    [w EXCEPT !.ipcWatcherRunning = TRUE, !.loops = @ + 1, !.calls = @ + 1,
              !.pending = @ + 1]

\* startIpcWatcher(deps): returns when ipcWatcherRunning is set, otherwise
\* sets it and calls processIpcFiles, counted here as a timer that is due
startIpcWatcher(w) ==
    IF w.ipcWatcherRunning THEN [w EXCEPT !.calls = @ + 1]
    ELSE [w EXCEPT !.ipcWatcherRunning = TRUE, !.loops = @ + 1, !.calls = @ + 1,
                   !.pending = @ + 1]

\* a loop that sets the timer of the next cycle when a cycle begins
timersSetAtStart(at) == IF at = "start" THEN 1 ELSE 0

\* the timers processIpcFiles sets: setTimeout(processIpcFiles,
\* IPC_POLL_INTERVAL) is its last statement, also in the catch of the listing
timersSet(at) == IF at = "end" THEN 1 ELSE 0

\* the callback is called
cycleBegins(w) ==
    [w EXCEPT !.pending = @ - 1 + timersSet("start"), !.running = @ + 1]

\* processIpcFiles returns
cycleEnds(w) ==
    [w EXCEPT !.pending = @ + timersSet("end"), !.running = @ - 1]

\* the timers and cycles after a step of the loop from before to after
watcherAfter(w, before, after, up) ==
    IF ~up THEN NoWatcher
    ELSE IF before.pc = "idle" /\ after.pc = "idle" THEN cycleEnds(cycleBegins(w))
    ELSE IF before.pc = "idle" THEN cycleBegins(w)
    ELSE IF after.pc = "idle" THEN cycleEnds(w)
    ELSE w

envIsMain(ns) == ns = MAIN_GROUP_FOLDER

TaskIds == 1..MaxFiles

ScheduleTypes == {"cron", "interval", "once"}

ScheduleSamples ==
    ({"cron"} \X {CronEvery, CronBad})
      \cup ({"interval"} \X IntervalSamples)
      \cup ({"once"} \X {OnceGood, OnceBad})

\* the values the schedule_task tool is called with
ToolScheduleSamples ==
    ScheduleSamples \cup ({"once"} \X {OnceZulu, OnceAhead})

\* the schedule_task tool's validation before it writes: FALSE when it
\* returns isError
toolValidates(stype, svalue) ==
    CASE stype = "cron"     -> cronParses(svalue)
      [] stype = "interval" -> ~(parseInt(svalue).isNaN \/ parseInt(svalue).n <= 0)
      [] stype = "once"     -> ~hasZoneSuffix(svalue) /\ dateValid(svalue)
      [] OTHER              -> TRUE

\* the file an agent saves for sending
AttachmentFile == "a.png"

\* attachment names, as the segments a separator divides them into: a saved
\* file, the parent reference, the directory itself, a name below a
\* subdirectory and the way to the main group's saved file
AttachmentNames ==
    {<<AttachmentFile>>, <<"..">>, <<".">>, <<"sub", AttachmentFile>>,
     <<"..", "..", "main", "attachments", AttachmentFile>>}

\* the files argument of send_message: absent, one name, or a saved file with
\* a second name
AttachmentLists ==
    {<<>>} \cup {<<n>> : n \in AttachmentNames}
      \cup {<<<<AttachmentFile>>, n>> : n \in {<<"..">>, <<"sub", AttachmentFile>>}}

sendMessageTool(ns) ==
    {[WithIdentity(Req("message", chatJid(ns), Absent, <<>>, 0, Absent),
                   ns, FALSE, Absent) EXCEPT !.files = fs] : fs \in AttachmentLists}

\* a tool that takes the target_group_jid argument in every runner
toolTargetJidAsAsked(ns, target) ==
    IF target # Absent THEN target ELSE chatJid(ns)

\* targetJid of the schedule_task tool: the argument in the main group's
\* runner, the runner's own chatJid otherwise
toolTargetJid(ns, target) ==
    IF envIsMain(ns) /\ target # Absent THEN target ELSE chatJid(ns)

scheduleTaskTool(ns) ==
    {WithIdentity(Req("schedule_task", toolTargetJid(ns, target),
                      sv[1], sv[2], 0, Absent),
                  Absent, FALSE, ns) :
        sv \in {x \in ToolScheduleSamples : toolValidates(x[1], x[2])},
        target \in {Absent, "jid_bob"}}

statusTaskTool(ns) ==
    {WithIdentity(Req(type, Absent, Absent, <<>>, id, Absent),
                  ns, envIsMain(ns), Absent) :
        type \in {"pause_task", "resume_task", "cancel_task"}, id \in TaskIds}

registerGroupTool(ns) ==
    IF ~envIsMain(ns) THEN {}
    ELSE {Req("register_group", j, Absent, <<>>, 0, f) :
             j \in {"jid_new", "jid_alice"}, f \in {"carol", "alice", "main"}}

restartTool(ns) ==
    {WithIdentity(Req(type, Absent, Absent, <<>>, 0, Absent), ns, FALSE, Absent) :
        type \in {"restart", "rebuild"}}

mainOnlyTool(ns) ==
    IF ~envIsMain(ns) THEN {}
    ELSE {WithIdentity(Req(type, Absent, Absent, <<>>, 0, Absent), ns, FALSE, Absent) :
             type \in {"pull_and_deploy", "test_container_build"}}

\* the tools that begin with the isMain check
MainOnlyTools == {"register_group", "pull_and_deploy", "test_container_build"}

\* a runner that writes restarting.flag and removes the build result before
\* it looks at isMain
toolCallCheckingLate(ns, tool) ==
    [isError |-> tool \in MainOnlyTools /\ ~envIsMain(ns),
     flag    |-> tool \in {"restart", "rebuild", "pull_and_deploy"},
     clears  |-> tool = "test_container_build"]

\* what a tool call does before writeIpcFile: whether it returns isError,
\* whether it writes restarting.flag, whether it removes .build-result.json
toolCall(ns, tool) ==
    IF tool \in MainOnlyTools /\ ~envIsMain(ns)
    THEN [isError |-> TRUE, flag |-> FALSE, clears |-> FALSE]
    ELSE [isError |-> FALSE,
          flag    |-> tool \in {"restart", "rebuild", "pull_and_deploy"},
          clears  |-> tool = "test_container_build"]

NoRefused == [ns |-> Absent, tool |-> Absent]

ToolRequests(ns) ==
    sendMessageTool(ns) \cup scheduleTaskTool(ns) \cup statusTaskTool(ns)
      \cup registerGroupTool(ns) \cup restartTool(ns) \cup mainOnlyTool(ns)

----------------------------------------------------------------------------
(* What a compromised invocation can put into its own namespace: any file.  *)

PrivilegedTypes ==
    {"register_group", "refresh_groups", "restart", "rebuild",
     "pull_and_deploy", "test_container_build"}

\* payload identity claims: none, claiming to be the main group, claiming
\* to be another group
Claims ==
    {<<Absent, FALSE, Absent>>, <<MAIN_GROUP_FOLDER, TRUE, MAIN_GROUP_FOLDER>>,
     <<"bob", FALSE, "bob">>}

Claimed(r, c) == WithIdentity(r, c[1], c[2], c[3])

ForgedObjects(ns) ==
    {Claimed(Req("message", "jid_bob", Absent, <<>>, 0, Absent), c) : c \in Claims}
    \cup {Claimed(Req("schedule_task", j, sv[1], sv[2], 0, Absent), c) :
        j \in {chatJid(ns), "jid_bob"},
        sv \in ScheduleSamples \cup {<<"weekly", CronEvery>>}, c \in Claims}
    \cup {Claimed(Req(type, Absent, Absent, <<>>, id, Absent), c) :
        type \in {"pause_task", "resume_task", "cancel_task"},
        id \in TaskIds, c \in Claims}
    \cup {Claimed(Req("register_group", "jid_new", Absent, <<>>, 0, f), c) :
        f \in {"carol", "../carol"}, c \in Claims}
    \cup {Claimed(Req(type, Absent, Absent, <<>>, 0, Absent), c) :
        type \in (PrivilegedTypes \ {"register_group"}) \cup {"no_such_type"},
        c \in Claims}

ForgedFiles(id, ns) ==
    {File(id, ns, queueOf(r.type), "json", TRUE, "object", r) : r \in ForgedObjects(ns)}
    \cup {File(id, ns, q, "json", TRUE, b, NoReq) :
             q \in {"messages", "tasks"}, b \in {"null", "garbage"}}

----------------------------------------------------------------------------
(* The group queue: one invocation per conversation, the rest waits.        *)
(* An entry is known by its arrival number in its conversation.             *)

\* a conversation with no invocation.  live counts its invocations that
\* have been started and have not exited, input the texts piped into the
\* active one; arrived, started and finished are history
IdleGroup ==
    [state |-> "idle", pending |-> <<>>, current |-> 0, live |-> 0, input |-> 0,
     arrived |-> 0, started |-> <<>>, finished |-> <<>>]

\* new GroupQueue()
NewQueue == [j \in Jids |-> IdleGroup]

\* nothing has been routed: no inbound message, no exit
NoRouted ==
    [jid |-> Absent, fromMe |-> FALSE, channel |-> FALSE, mentioned |-> FALSE,
     requiresTrigger |-> FALSE, did |-> "none", typing |-> FALSE]

\* the entry an enqueue call brings
nextEntry(q, jid) == q[jid].arrived + 1

\* the launcher is called for an entry
startInvocation(g, entry) ==
    [g EXCEPT !.state = "running", !.current = entry, !.live = @ + 1,
              !.input = 0, !.started = Append(@, entry)]

\* an enqueue that starts the invocation whatever the conversation is doing
enqueueStartingAtOnce(q, jid, entry) ==
    [q EXCEPT ![jid] = startInvocation([@ EXCEPT !.arrived = entry], entry)]

\* an enqueue that puts the entry in front of those that wait
enqueueInFront(q, jid, entry) ==
    IF q[jid].state = "idle"
    THEN [q EXCEPT ![jid] = startInvocation([@ EXCEPT !.arrived = entry], entry)]
    ELSE [q EXCEPT ![jid].pending = <<entry>> \o @, ![jid].arrived = entry]

\* enqueue: starts at once if the conversation is idle, appends otherwise
enqueue(q, jid, entry) ==
    IF q[jid].state = "idle"
    THEN [q EXCEPT ![jid] = startInvocation([@ EXCEPT !.arrived = entry], entry)]
    ELSE [q EXCEPT ![jid].pending = Append(@, entry), ![jid].arrived = entry]

\* a sendMessage that still accepts while the invocation shuts down
sendMessageAcceptsClosing(q, jid) == q[jid].state # "idle"

\* sendMessage returns true: an invocation is active and not shutting down
sendMessageAccepts(q, jid) == q[jid].state = "running"

\* sendMessage: the text goes into the live input channel, or nothing happens
sendMessage(q, jid) ==
    IF sendMessageAccepts(q, jid) THEN [q EXCEPT ![jid].input = @ + 1] ELSE q

\* the active invocation has begun shutting down
closing(q, jid) == [q EXCEPT ![jid].state = "closing"]

ExitCauses == {"success", "crash", "timeout"}

\* a completion that starts the next entry only after a success
onExitNextAfterSuccess(q, jid, cause) ==
    LET g == [q[jid] EXCEPT !.live = @ - 1, !.finished = Append(@, q[jid].current),
                            !.current = 0]
    IN  IF g.pending # <<>> /\ cause = "success"
        THEN [q EXCEPT ![jid] = startInvocation([g EXCEPT !.pending = Tail(@)],
                                                Head(g.pending))]
        ELSE [q EXCEPT ![jid] = [g EXCEPT !.state = "idle"]]

\* completion, whatever its cause: the next pending entry starts, or the
\* conversation is idle again
onExit(q, jid, cause) ==
    LET g == [q[jid] EXCEPT !.live = @ - 1, !.finished = Append(@, q[jid].current),
                            !.current = 0]
    IN  IF g.pending # <<>>
        THEN [q EXCEPT ![jid] = startInvocation([g EXCEPT !.pending = Tail(@)],
                                                Head(g.pending))]
        ELSE [q EXCEPT ![jid] = [g EXCEPT !.state = "idle"]]

----------------------------------------------------------------------------
(* Initial states: three registered conversations, an empty mailbox.        *)

\* startIpcWatcher has been called
Started ==
    /\ mailbox = {}
    /\ errors = {}
    /\ nextId = 1
    /\ registeredGroups = [j \in Jids |->
           CASE j = "jid_main" -> "main" [] j = "jid_alice" -> "alice"
             [] j = "jid_bob" -> "bob" [] OTHER -> NoGroup]
    /\ registry = [groups |-> <<[jid |-> "jid_main", folder |-> "main"],
                                [jid |-> "jid_alice", folder |-> "alice"],
                                [jid |-> "jid_bob", folder |-> "bob"]>>,
                   result |-> "none"]
    /\ restartFlag = {}
    /\ refused = NoRefused
    /\ attachments = {}
    /\ updates = {}
    /\ sent = {}
    /\ syncedBy = {}
    /\ builtBy = {}
    /\ steps = <<>>
    /\ head = "previous"
    /\ buildResult = "none"
    /\ alive = TRUE
    /\ poll = Idle
    /\ watcher = startIpcWatcher(NoWatcher)
    /\ queue = NewQueue
    /\ clock = [now |-> 0, moves |-> 0]
    /\ fired = [i \in FileIds |-> <<>>]
    /\ routed = NoRouted
    /\ acted = [i \in FileIds |-> 0]
    /\ last = NoLast

EmptyStore ==
    /\ tasks = <<>>
    /\ nextTask = 1
    /\ createdFrom = <<>>

\* a host whose process runs in the zone configured for schedules
PacificHost ==
    /\ TIMEZONE = "America/Los_Angeles"
    /\ localZone = "America/Los_Angeles"

Init == Started /\ EmptyStore /\ PacificHost

storeVars == <<registeredGroups, tasks, nextTask, createdFrom, updates,
               syncedBy, builtBy, steps, head, TIMEZONE, localZone, clock, fired,
               registry>>

hostVars == <<storeVars, buildResult>>

\* what the tools of the agent runner leave beside the mailbox
toolVars == <<restartFlag, refused, attachments>>

\* conversations whose id starts with dc:
DiscordJids == {"jid_bob"}

\* an inbound message as onInboundMessage sees it: fromMe, blank and
\* mentioned tell of its content; channel, that a connected channel owns
\* the conversation; requiresTrigger, the flag of the group as loaded
InboundMessages ==
    [fromMe : BOOLEAN, blank : BOOLEAN, mentioned : BOOLEAN,
     channel : BOOLEAN, requiresTrigger : BOOLEAN]

\* what onInboundMessage does with a message: "ignored", "piped" or
\* "enqueued", and whether the typing indicator is set
route(jid, m, registered, accepts) ==
    IF m.fromMe THEN "ignored"
    ELSE IF jid \in DiscordJids
    THEN IF ~m.channel \/ m.blank \/ ~registered THEN "ignored" ELSE "enqueued"
    ELSE IF ~registered THEN "ignored"
    ELSE IF m.requiresTrigger /\ ~m.mentioned THEN "ignored"
    ELSE IF ~m.channel THEN "ignored"
    ELSE IF accepts THEN "piped"
    ELSE "enqueued"

\* a router that enqueues an invocation for a message it has piped
routeEffectEnqueueingPiped(q, jid, did) ==
    CASE did = "piped"    -> enqueue(sendMessage(q, jid), jid, nextEntry(q, jid))
      [] did = "enqueued" -> enqueue(q, jid, nextEntry(q, jid))
      [] OTHER            -> q

\* the queue calls of onInboundMessage: sendMessage and return, or enqueue
routeEffect(q, jid, did) ==
    CASE did = "piped"    -> sendMessage(q, jid)
      [] did = "enqueued" -> enqueue(q, jid, nextEntry(q, jid))
      [] OTHER            -> q

queueUnchanged ==
    UNCHANGED <<mailbox, errors, nextId, hostVars, sent, alive, poll, watcher, acted, last,
                toolVars>>

\* onInboundMessage for a conversation and a message of the sets: Discord
\* conversations are enqueued, the others piped into the active invocation
\* or enqueued
InboundOf(jids, msgs) ==
    /\ alive
    /\ \E jid \in jids, m \in msgs :
         LET registered == registeredGroups[jid] # NoGroup
             did == route(jid, m, registered, sendMessageAccepts(queue, jid))
         IN  /\ did = "enqueued" => queue[jid].arrived < MaxEntries
             /\ did = "piped" => queue[jid].input < MaxPiped
             /\ queue' = routeEffect(queue, jid, did)
             /\ routed' = [jid |-> jid, fromMe |-> m.fromMe, channel |-> m.channel,
                           mentioned |-> m.mentioned,
                           requiresTrigger |-> m.requiresTrigger, did |-> did,
                           typing |-> did # "ignored"]
    /\ queueUnchanged

\* an active invocation begins to shut down
InvocationClosing ==
    /\ alive
    /\ \E jid \in Jids :
         /\ queue[jid].state = "running"
         /\ queue' = closing(queue, jid)
         /\ routed' = [NoRouted EXCEPT !.jid = jid, !.did = "closing"]
    /\ queueUnchanged

\* the process of the invocation of one conversation exits: success, crash
\* or watchdog
InvocationExitOf(jid) ==
    /\ alive
    /\ queue[jid].live > 0
    /\ \E cause \in ExitCauses :
         /\ queue' = onExit(queue, jid, cause)
         /\ routed' = [NoRouted EXCEPT !.jid = jid, !.did = cause]
    /\ queueUnchanged

InvocationExit == \E jid \in Jids : InvocationExitOf(jid)

schedulerUnchanged ==
    UNCHANGED <<mailbox, errors, nextId, registeredGroups, registry, nextTask,
                createdFrom, updates, sent, syncedBy, builtBy, steps, head, buildResult,
                TIMEZONE, localZone, queue, routed, alive, poll, watcher, acted, last,
                toolVars>>

\* time passes: by some milliseconds, or up to the next run of a stored task
AdvanceClock ==
    /\ clock.moves < MaxMoves
    /\ \E t \in {clock.now + 7} \cup {runTime(tasks[i].next_run) : i \in DOMAIN tasks} :
         /\ t > clock.now
         /\ clock' = [now |-> t, moves |-> clock.moves + 1]
    /\ UNCHANGED <<tasks, fired>>
    /\ schedulerUnchanged

\* a tick of the scheduler: every due task is fired through the launcher
SchedulerTick ==
    /\ alive
    /\ \E i \in DOMAIN tasks : isDue(tasks[i], clock.now)
    /\ tasks' = [i \in DOMAIN tasks |->
                    IF isDue(tasks[i], clock.now) THEN afterFire(tasks[i], clock.now)
                    ELSE tasks[i]]
    /\ fired' = [i \in FileIds |->
                    IF i \in DOMAIN tasks /\ isDue(tasks[i], clock.now)
                    THEN Append(fired[i], clock.now) ELSE fired[i]]
    /\ UNCHANGED clock
    /\ schedulerUnchanged

\* a task alice scheduled in an earlier run of the host, as the store holds it
StoredTask ==
    [group_folder |-> "alice", chat_jid |-> "jid_alice",
     schedule_type |-> "cron", schedule_value |-> CronEvery,
     next_run |-> nextRunOf("cron", CronEvery, "America/Los_Angeles", 0),
     status |-> "active"]

\* the host starts with that task in its store
InitStored ==
    /\ Started
    /\ tasks = <<StoredTask>>
    /\ nextTask = 2
    /\ createdFrom = <<"alice">>
    /\ PacificHost

\* the host starts with any configured zone, its process in any zone
InitZones ==
    /\ Started
    /\ EmptyStore
    /\ TIMEZONE \in Zones
    /\ localZone \in Zones

----------------------------------------------------------------------------
(* Writers *)

\* the requests a run looks at: F.tools the (namespace, type) pairs of tool
\* calls, F.forgers the namespaces with a compromised invocation, F.types the
\* types of forged requests, F.svals the schedule values, F.others whether
\* schedules for other conversations are among them, F.ids the task ids
\* that pause, resume and cancel requests name, F.files the attachment lists
\* of messages, F.claims the identity claims of forged payloads
InFocus(F, r) ==
    /\ r.type = "message" => r.files \in F.files
    /\ r.type = "schedule_task" =>
          /\ <<r.schedule_type, r.schedule_value>> \in F.svals
          /\ F.others \/ r.jid # "jid_bob"
    /\ r.type \in {"pause_task", "resume_task", "cancel_task"} => r.taskId \in F.ids
    /\ r.type = "register_group" =>
          F.others \/ (r.jid = "jid_new" /\ r.folder \notin {"main"})

\* a tool call starts writing its request under the temporary name
ToolWriteOf(F) ==
    /\ nextId <= MaxFiles
    /\ \E ns \in Writers :
         \E r \in {x \in ToolRequests(ns) :
                      <<ns, x.type>> \in F.tools /\ InFocus(F, x)} :
           /\ mailbox' = mailbox \cup {writeIpcFile(nextId, ns, r)}
           /\ ~toolCall(ns, r.type).isError
           \* the test_container_build tool removes the previous result first
           /\ buildResult' = IF toolCall(ns, r.type).clears THEN "none"
                             ELSE buildResult
           /\ restartFlag' = IF toolCall(ns, r.type).flag
                             THEN restartFlag \cup {ns} ELSE restartFlag
    /\ nextId' = nextId + 1
    /\ UNCHANGED <<errors, storeVars, sent, alive, poll, watcher, acted, last, queue, routed,
                   refused, attachments>>

\* a tool call that returns isError: true
ToolRefusesOf(F) ==
    /\ \E ns \in Writers, tool \in MainOnlyTools :
           /\ <<ns, tool>> \in F.tools
           /\ toolCall(ns, tool).isError
           /\ refused' = [ns |-> ns, tool |-> tool]
           /\ buildResult' = IF toolCall(ns, tool).clears THEN "none"
                             ELSE buildResult
           /\ restartFlag' = IF toolCall(ns, tool).flag
                             THEN restartFlag \cup {ns} ELSE restartFlag
    /\ UNCHANGED <<mailbox, errors, nextId, storeVars, sent, alive, poll, watcher, acted, last,
                   queue, routed, attachments>>

\* the tool call finishes the text and renames the file to <id>.json
ToolRename ==
    /\ \E f \in mailbox :
           /\ ~f.whole
           /\ mailbox' = (mailbox \ {f}) \cup {renameIpcFile(f)}
    /\ UNCHANGED <<errors, nextId, hostVars, sent, alive, poll, watcher, acted, last, queue, routed,
                toolVars>>

\* a compromised invocation drops a file of its own making
ForgeOf(F) ==
    /\ nextId <= MaxFiles
    /\ \E ns \in F.forgers :
         \E f \in {x \in ForgedFiles(nextId, ns) :
                      IF x.body = "object"
                      THEN /\ x.data.type \in F.types
                           /\ InFocus(F, x.data)
                           /\ <<x.data.groupFolder, x.data.isMain,
                                x.data.createdBy>> \in F.claims
                      ELSE x.body \in F.types} :
           mailbox' = mailbox \cup {f}
    /\ nextId' = nextId + 1
    /\ UNCHANGED <<errors, hostVars, sent, alive, poll, watcher, acted, last, queue, routed,
                toolVars>>

----------------------------------------------------------------------------
(* The poll loop: processIpcFiles *)

\* after the messages of the current namespace: its tasks directory is next
afterMessages(todo, rest) ==
    IF rest # <<>> THEN [pc |-> "msgs", todo |-> todo, list |-> rest]
    ELSE [pc |-> "scanT", todo |-> todo, list |-> <<>>]

\* after the tasks of the current namespace: the next namespace, or
\* setTimeout(processIpcFiles, IPC_POLL_INTERVAL)
afterTasks(todo, rest) ==
    IF rest # <<>> THEN [pc |-> "tasks", todo |-> todo, list |-> rest]
    ELSE IF Len(todo) > 1 THEN [pc |-> "scanM", todo |-> Tail(todo), list |-> <<>>]
    ELSE Idle

\* a loop that gives up the whole cycle when a namespace's tasks fail
afterTaskErrorAbort(todo) == Idle

\* the outer catch of a namespace's tasks ("Error reading IPC tasks
\* directory"): the rest of its task files is left, the for loop over
\* groupFolders goes on
afterTaskError(todo) == afterTasks(todo, <<>>)

\* the timer fires: the namespace directories are listed
PollStart ==
    /\ alive
    /\ watcher.pending > 0
    /\ \E order \in Perms(Writers) :
           poll' = [pc |-> "scanM", todo |-> order, list |-> <<>>]
    /\ UNCHANGED <<mailbox, errors, nextId, hostVars, sent, alive, acted, last, queue, routed,
                toolVars>>
    /\ watcher' = watcherAfter(watcher, poll, poll', alive')

\* the history record of a failed listing of the base directory
ReadFailed == [NoLast EXCEPT !.out = "readdir"]

\* a loop that returns from a failed listing without setting the timer
afterReadErrorStop == [pc |-> "stopped", todo |-> <<>>, list |-> <<>>]

\* the catch of the base directory listing: setTimeout(processIpcFiles, ...)
\* and return
afterReadError == Idle

\* the timer fires and readdirSync(ipcBaseDir) or a statSync throws
PollReadFail ==
    /\ alive
    /\ watcher.pending > 0
    /\ poll' = afterReadError
    /\ last' = ReadFailed
    /\ UNCHANGED <<mailbox, errors, nextId, hostVars, sent, alive, acted, queue, routed,
                toolVars>>
    /\ watcher' = watcherAfter(watcher, poll, poll', alive')

\* the messages directory of the current namespace is listed
ScanMessages ==
    /\ alive
    /\ poll.pc = "scanM"
    /\ \E l \in Perms({f.id : f \in jsonFiles(mailbox, Head(poll.todo), "messages")}) :
           poll' = afterMessages(poll.todo, l)
    /\ UNCHANGED <<mailbox, errors, nextId, hostVars, sent, alive, acted, last, queue, routed,
                toolVars>>
    /\ watcher' = watcherAfter(watcher, poll, poll', alive')

\* a host without the authorization test of a message request
messageAuthorizedAny(data, sourceGroup, isMain, groups) == TRUE

\* the authorization test of a message request
messageAuthorized(data, sourceGroup, isMain, groups) ==
    \/ isMain
    \/ /\ data.jid \in DOMAIN groups
       /\ groups[data.jid] = sourceGroup

\* the directories under data/ipc: the base, errors/, and each namespace
\* with its messages, tasks and attachments
Directories ==
    {<<>>, <<"errors">>} \cup {<<ns>> : ns \in Folders}
      \cup {<<ns, d>> : ns \in Folders, d \in {"messages", "tasks", "attachments"}}

\* path.basename(f): what follows the last separator
basename(f) == IF f = <<>> THEN <<>> ELSE <<f[Len(f)]>>

RECURSIVE normalize(_, _)
\* path.normalize: "." is dropped and ".." takes the segment before it away
normalize(done, rest) ==
    IF rest = <<>> THEN done
    ELSE IF Head(rest) = "." THEN normalize(done, Tail(rest))
    ELSE IF Head(rest) = ".." /\ done # <<>> /\ done[Len(done)] # ".."
    THEN normalize(SubSeq(done, 1, Len(done) - 1), Tail(rest))
    ELSE normalize(Append(done, Head(rest)), Tail(rest))

\* path.join(dir, f), below ipcBaseDir
pathJoin(dir, f) == normalize(<<>>, dir \o f)

\* fs.existsSync(p): a file or a directory lies there
existsSync(p, disk) == p \in disk \/ p \in Directories

\* the attachment paths of a message: the names that are their own basename,
\* joined to the attachments directory of the source namespace, that exist.
\* Every name here is a string, as the tool's schema has it
resolvedFiles(files, sourceGroup, disk) ==
    LET attachmentsDir == <<sourceGroup, "attachments">>
        isBare(f)      == basename(f) = f
        joined         == [i \in 1..Len(SelectSeq(files, isBare)) |->
                             pathJoin(attachmentsDir, SelectSeq(files, isBare)[i])]
        isThere(p)     == existsSync(p, disk)
    IN  SelectSeq(joined, isThere)

\* fs.unlinkSync(p) for each path, errors ignored: a file is removed, a
\* directory stays
unlinkEach(disk, paths) == disk \ {paths[i] : i \in 1..Len(paths)}

\* a loop body whose unauthorized message ends in the catch block
messageDecisionThrowing(f, sourceGroup, isMain, groups) ==
    IF parseThrows(f) \/ f.body = "null" THEN "error"
    ELSE IF f.data.type = "message" /\ f.data.jid # Absent /\ f.data.text # ""
    THEN IF messageAuthorized(f.data, sourceGroup, isMain, groups)
         THEN "send" ELSE "error"
    ELSE "drop"

\* what the loop body does with a message file: "error" (the catch block),
\* "send" (deps.sendMessage is called) or "drop" (only unlinked)
messageDecision(f, sourceGroup, isMain, groups) ==
    IF parseThrows(f) \/ f.body = "null" THEN "error"
    ELSE IF f.data.type = "message" /\ f.data.jid # Absent /\ f.data.text # ""
              /\ messageAuthorized(f.data, sourceGroup, isMain, groups)
    THEN "send"
    ELSE "drop"

\* one message file: the body of the for loop over messageFiles
HandleMessage ==
    /\ alive
    /\ poll.pc = "msgs"
    /\ LET id          == Head(poll.list)
           f           == fileById(mailbox, id)
           sourceGroup == Head(poll.todo)
           isMain      == sourceGroup = MAIN_GROUP_FOLDER
           decision    == messageDecision(f, sourceGroup, isMain, registeredGroups)
           resolved    == resolvedFiles(f.data.files, sourceGroup, attachments)
           toErrors    == /\ mailbox' = unlink(mailbox, id)
                          /\ errors' = errors \cup {errorFile(f, sourceGroup)}
                          /\ sent' = sent
                          /\ attachments' = attachments
                          /\ last' = Handled(f, sourceGroup, "error")
       IN  /\ acted' = [acted EXCEPT ![id] = @ + 1]
           /\ CASE decision = "error" -> toErrors
                [] decision = "send" ->
                     \E sendOk \in BOOLEAN :
                       IF sendOk
                       THEN /\ sent' = sent \cup {[id |-> id, jid |-> f.data.jid,
                                                   from |-> sourceGroup,
                                                   files |-> resolved]}
                            \* the attachment files are unlinked after the send
                            /\ attachments' = unlinkEach(attachments, resolved)
                            /\ mailbox' = unlink(mailbox, id)
                            /\ errors' = errors
                            /\ last' = Handled(f, sourceGroup, "sent")
                       ELSE toErrors
                [] OTHER ->
                     /\ mailbox' = unlink(mailbox, id)
                     /\ errors' = errors
                     /\ sent' = sent
                     /\ attachments' = attachments
                     /\ last' = Handled(f, sourceGroup, "dropped")
           /\ poll' = afterMessages(poll.todo, Tail(poll.list))
    /\ UNCHANGED <<nextId, hostVars, alive, queue, routed,
                restartFlag, refused>>
    /\ watcher' = watcherAfter(watcher, poll, poll', alive')

\* the tasks directory of the current namespace is listed
ScanTasks ==
    /\ alive
    /\ poll.pc = "scanT"
    /\ \E l \in Perms({f.id : f \in jsonFiles(mailbox, Head(poll.todo), "tasks")}) :
           poll' = afterTasks(poll.todo, l)
    /\ UNCHANGED <<mailbox, errors, nextId, hostVars, sent, alive, acted, last, queue, routed,
                toolVars>>
    /\ watcher' = watcherAfter(watcher, poll, poll', alive')

\* a loop body that reads a task file and leaves it where it is
taskFileReadKeeping(mb, id) == mb

\* the mailbox once a task file has been read and parsed: unlinked before
\* processTaskIpc runs
taskFileRead(mb, id) == unlink(mb, id)

\* one task file: the body of the for loop over taskFiles
HandleTask ==
    /\ alive
    /\ poll.pc = "tasks"
    /\ LET id          == Head(poll.list)
           f           == fileById(mailbox, id)
           sourceGroup == Head(poll.todo)
           isMain      == sourceGroup = MAIN_GROUP_FOLDER
       IN  /\ acted' = [acted EXCEPT ![id] = @ + 1]
           /\ IF parseThrows(f)
              THEN \* JSON.parse threw: the file is still there and is moved
                   /\ mailbox' = unlink(mailbox, id)
                   /\ errors' = errors \cup {errorFile(f, sourceGroup)}
                   /\ poll' = afterTasks(poll.todo, Tail(poll.list))
                   /\ last' = Handled(f, sourceGroup, "error")
                   /\ UNCHANGED <<hostVars, alive>>
              ELSE \E env \in EnvOf(IF f.body = "null" THEN Absent ELSE f.data.type) :
                   LET mb  == taskFileRead(mailbox, id)
                       res == IF f.body = "null" THEN Throw(HostState)
                              ELSE processTaskIpc(f.data, sourceGroup, isMain,
                                                  HostState, env, id)
                   IN  /\ registeredGroups' = res.st.registeredGroups
                       /\ tasks' = res.st.tasks
                       /\ nextTask' = res.st.nextTask
                       /\ createdFrom' = res.st.createdFrom
                       /\ updates' = res.st.updates
                       /\ syncedBy' = res.st.syncedBy
                       /\ builtBy' = res.st.builtBy
                       /\ steps' = res.st.steps
                       /\ head' = res.st.head
                       /\ registry' = res.st.registry
                       /\ UNCHANGED <<TIMEZONE, localZone, clock, fired>>
                       /\ buildResult' = res.st.buildResult
                       /\ CASE res.out = "return" ->
                                 /\ mailbox' = mb
                                 /\ errors' = errors
                                 /\ alive' = alive
                                 /\ poll' = afterTasks(poll.todo, Tail(poll.list))
                                 /\ last' = Handled(f, sourceGroup, "return")
                            [] res.out = "exit" ->
                                 /\ mailbox' = mb
                                 /\ errors' = errors
                                 /\ alive' = FALSE
                                 /\ poll' = Idle
                                 /\ last' = Handled(f, sourceGroup, "exit")
                            [] OTHER ->
                                 \* the catch block renames filePath to errors/;
                                 \* when the file is gone renameSync throws and
                                 \* the outer catch ends this namespace's tasks
                                 IF exists(mb, id)
                                 THEN /\ mailbox' = unlink(mb, id)
                                      /\ errors' = errors \cup {errorFile(f, sourceGroup)}
                                      /\ alive' = alive
                                      /\ poll' = afterTasks(poll.todo, Tail(poll.list))
                                      /\ last' = Handled(f, sourceGroup, "error")
                                 ELSE /\ mailbox' = mb
                                      /\ errors' = errors
                                      /\ alive' = alive
                                      /\ poll' = afterTaskError(poll.todo)
                                      /\ last' = Handled(f, sourceGroup, "lost")
    /\ UNCHANGED <<nextId, sent, queue, routed,
                toolVars>>
    /\ watcher' = watcherAfter(watcher, poll, poll', alive')

\* a start that empties the base directory
mailboxAtStartCleared(mb) == {}

\* fs.mkdirSync(ipcBaseDir, {recursive: true}): what lies in the base
\* directory stays
mailboxAtStart(mb) == mb

\* the service manager starts the process again; startIpcWatcher polls at once
Relaunch ==
    /\ ~alive
    /\ alive' = TRUE
    /\ poll' = Idle
    /\ queue' = NewQueue
    /\ routed' = NoRouted
    /\ mailbox' = mailboxAtStart(mailbox)
    /\ watcher' = startIpcWatcher(NoWatcher)
    /\ UNCHANGED <<errors, nextId, hostVars, sent, acted, last,
                toolVars>>

\* startIpcWatcher is called in a process whose loop was started
StartIpcWatcherAgain ==
    /\ alive
    /\ watcher.calls < MaxCalls
    /\ watcher' = startIpcWatcher(watcher)
    /\ UNCHANGED <<mailbox, errors, nextId, hostVars, sent, alive, poll, acted, last,
                   queue, routed, toolVars>>

\* an agent saves a file under /workspace/ipc/attachments
SaveAttachment ==
    /\ \E ns \in Writers :
           /\ <<ns, "attachments", AttachmentFile>> \notin attachments
           /\ attachments' = attachments \cup {<<ns, "attachments", AttachmentFile>>}
    /\ UNCHANGED <<mailbox, errors, nextId, hostVars, sent, alive, poll, watcher, acted,
                   last, queue, routed, restartFlag, refused>>

\* the host side and the second half of a tool's write
Host ==
    \/ ToolRename
    \/ PollStart
    \/ ScanMessages
    \/ HandleMessage
    \/ ScanTasks
    \/ HandleTask
    \/ Relaunch

AllTypes ==
    PrivilegedTypes \cup {"message", "schedule_task", "pause_task", "resume_task",
                          "cancel_task", "no_such_type", "null", "garbage"}

Everything ==
    [tools |-> Writers \X AllTypes,
     forgers |-> Writers,
     types |-> AllTypes,
     svals |-> ScheduleSamples \cup {<<"weekly", CronEvery>>},
     others |-> TRUE,
     ids |-> TaskIds,
     files |-> AttachmentLists,
     claims |-> Claims]

ToolWrite == ToolWriteOf(Everything)

ToolRefuses == ToolRefusesOf(Everything)

Forge == ForgeOf(Everything)

Inbound == InboundOf(Jids, InboundMessages)

Next ==
    \/ ToolWrite
    \/ ToolRefuses
    \/ Forge
    \/ Host
    \/ PollReadFail
    \/ Inbound
    \/ InvocationClosing
    \/ InvocationExit
    \/ AdvanceClock
    \/ SchedulerTick
    \/ StartIpcWatcherAgain
    \/ SaveAttachment

Spec == Init /\ [][Next]_vars

\* the steps of the poll loop itself: timer callbacks and the synchronous
\* code and awaited calls between them
PollStep ==
    \/ PollStart
    \/ ScanMessages
    \/ HandleMessage
    \/ ScanTasks
    \/ HandleTask

----------------------------------------------------------------------------
(* Authorization of privileged actions: the writers restricted to the       *)
(* privileged request types, with and without forged identity claims.       *)

AuthFocus ==
    [tools |-> {<<"alice", "message">>, <<"alice", "restart">>,
                <<"main", "register_group">>, <<"main", "test_container_build">>},
     forgers |-> {"alice"},
     types |-> PrivilegedTypes \cup {"no_such_type"},
     svals |-> {},
     others |-> FALSE,
     ids |-> {},
     files |-> {<<>>},
     claims |-> {<<MAIN_GROUP_FOLDER, TRUE, MAIN_GROUP_FOLDER>>}]

ToolWriteAuth == ToolWriteOf(AuthFocus)

ForgeAuth == ForgeOf(AuthFocus)

NextAuth == ToolWriteAuth \/ ForgeAuth \/ Host

SpecAuth == Init /\ [][NextAuth]_vars

----------------------------------------------------------------------------
(* The mailbox itself: messages, files that do not parse, files whose       *)
(* handling throws, and tool calls caught in the middle of their write.     *)

MailboxFocus ==
    [tools |-> {<<"alice", "message">>, <<"main", "message">>,
                <<"alice", "restart">>},
     forgers |-> Writers,
     types |-> {"message", "null", "garbage"},
     svals |-> {},
     others |-> FALSE,
     ids |-> {},
     files |-> {<<>>},
     claims |-> {<<Absent, FALSE, Absent>>}]

ToolWriteMailbox == ToolWriteOf(MailboxFocus)

ForgeMailbox == ForgeOf(MailboxFocus)

NextMailbox == ToolWriteMailbox \/ ForgeMailbox \/ Host

SpecMailbox == Init /\ [][NextMailbox]_vars

----------------------------------------------------------------------------
(* Ownership of scheduled tasks: one schedule value, own and foreign        *)
(* targets, and the requests that pause, resume and cancel.                 *)

OwnershipFocus ==
    [tools |-> {<<"main", "schedule_task">>, <<"alice", "schedule_task">>,
                <<"alice", "message">>, <<"alice", "restart">>},
     forgers |-> {"alice"},
     types |-> {"schedule_task", "pause_task", "resume_task", "cancel_task"},
     svals |-> {<<"cron", CronEvery>>},
     others |-> TRUE,
     ids |-> {1, 2},
     files |-> {<<>>},
     claims |-> {<<"bob", FALSE, "bob">>}]

ToolWriteOwnership == ToolWriteOf(OwnershipFocus)

ForgeOwnership == ForgeOf(OwnershipFocus)

NextOwnership == ToolWriteOwnership \/ ForgeOwnership \/ Host

SpecOwnership == Init /\ [][NextOwnership]_vars

----------------------------------------------------------------------------
(* Schedule values: every sample value, each for the group's own            *)
(* conversation, through the tool and written by hand.                      *)

ScheduleFocus ==
    [tools |-> {<<"alice", "schedule_task">>, <<"alice", "message">>,
                <<"alice", "restart">>},
     forgers |-> {"alice"},
     types |-> {"schedule_task"},
     svals |-> ScheduleSamples \cup {<<"weekly", CronEvery>>},
     others |-> FALSE,
     ids |-> {},
     files |-> {<<>>},
     claims |-> {<<Absent, FALSE, Absent>>}]

ToolWriteSchedule == ToolWriteOf(ScheduleFocus)

ForgeSchedule == ForgeOf(ScheduleFocus)

NextSchedule == ToolWriteSchedule \/ ForgeSchedule \/ Host

SpecSchedule == Init /\ [][NextSchedule]_vars

----------------------------------------------------------------------------
(* The loop as a whole: failing requests, failing listings of the base      *)
(* directory, restarts; timers fire and awaited calls settle.               *)

LoopFocus ==
    [tools |-> {<<"alice", "message">>, <<"alice", "restart">>},
     forgers |-> {"alice"},
     types |-> {"null", "garbage"},
     svals |-> {},
     others |-> FALSE,
     ids |-> {},
     files |-> {<<>>},
     claims |-> {<<Absent, FALSE, Absent>>}]

ToolWriteLoop == ToolWriteOf(LoopFocus)

ForgeLoop == ForgeOf(LoopFocus)

NextLoop == ToolWriteLoop \/ ForgeLoop \/ Host \/ PollReadFail

SpecLoop == Init /\ [][NextLoop]_vars /\ WF_vars(PollStep)

----------------------------------------------------------------------------
(* Builds and deploys: the main group's restart, rebuild, pull_and_deploy   *)
(* and test_container_build, next to requests that must not end the host.   *)

DeployFocus ==
    [tools |-> {<<"main", "restart">>, <<"main", "rebuild">>,
                <<"main", "pull_and_deploy">>, <<"main", "test_container_build">>,
                <<"alice", "message">>},
     forgers |-> {"alice"},
     types |-> {"no_such_type", "garbage", "test_container_build"},
     svals |-> {},
     others |-> FALSE,
     ids |-> {},
     files |-> {<<>>},
     claims |-> {<<Absent, FALSE, Absent>>}]

ToolWriteDeploy == ToolWriteOf(DeployFocus)

ForgeDeploy == ForgeOf(DeployFocus)

NextDeploy == ToolWriteDeploy \/ ForgeDeploy \/ Host

SpecDeploy == Init /\ [][NextDeploy]_vars

----------------------------------------------------------------------------
(* Pausing and resuming a stored task: the owner's and the main group's     *)
(* requests for the stored task and for a task that does not exist.         *)

StatusFocus ==
    [tools |-> {<<"alice", "pause_task">>, <<"alice", "resume_task">>,
                <<"main", "pause_task">>, <<"alice", "message">>},
     forgers |-> {"alice"},
     types |-> {"restart"},
     svals |-> {},
     others |-> FALSE,
     ids |-> {1, 2},
     files |-> {<<>>},
     claims |-> {<<Absent, FALSE, Absent>>}]

ToolWriteStatus == ToolWriteOf(StatusFocus)

ForgeStatus == ForgeOf(StatusFocus)

NextStatus == ToolWriteStatus \/ ForgeStatus \/ Host

SpecStatus == InitStored /\ [][NextStatus]_vars

----------------------------------------------------------------------------
(* One-shot schedules under every pairing of the configured zone and the    *)
(* zone of the host process.                                                *)

ZonesFocus ==
    [tools |-> {<<"alice", "schedule_task">>, <<"main", "schedule_task">>,
                <<"alice", "message">>},
     forgers |-> {"alice"},
     types |-> {"restart"},
     svals |-> {<<"once", OnceGood>>},
     others |-> TRUE,
     ids |-> {},
     files |-> {<<>>},
     claims |-> {<<Absent, FALSE, Absent>>}]

ToolWriteZones == ToolWriteOf(ZonesFocus)

ForgeZones == ForgeOf(ZonesFocus)

NextZones == ToolWriteZones \/ ForgeZones \/ Host

SpecZones == InitZones /\ [][NextZones]_vars

----------------------------------------------------------------------------
(* The queue alone: messages for two conversations, one of them on Discord, *)
(* from other people, with text, on a connected channel.                    *)

QueueJids == {"jid_alice", "jid_bob"}

QueueMessages ==
    {m \in InboundMessages : ~m.fromMe /\ ~m.blank /\ m.channel}

InboundQueue == InboundOf(QueueJids, QueueMessages)

NextQueue == InboundQueue \/ InvocationClosing \/ InvocationExit

SpecQueue == Init /\ [][NextQueue]_vars

\* every invocation terminates: by itself, or killed by a watchdog
SpecQueueFair ==
    /\ Init
    /\ [][NextQueue]_vars
    /\ \A jid \in QueueJids : WF_vars(InvocationExitOf(jid))

----------------------------------------------------------------------------
(* The registry: registrations by the main group, also of a conversation    *)
(* and of folders that are registered, and messages for the conversation    *)
(* that is new.                                                             *)

RegistryFocus ==
    [tools |-> {<<"main", "register_group">>, <<"alice", "message">>},
     forgers |-> {"alice"},
     types |-> {"register_group", "restart"},
     svals |-> {},
     others |-> TRUE,
     ids |-> {},
     files |-> {<<>>},
     claims |-> {<<Absent, FALSE, Absent>>}]

ToolWriteRegistry == ToolWriteOf(RegistryFocus)

ForgeRegistry == ForgeOf(RegistryFocus)

RegistryMessages ==
    {m \in QueueMessages : m.mentioned /\ m.requiresTrigger}

InboundRegistry == InboundOf({"jid_new"}, RegistryMessages)

NextRegistry == ToolWriteRegistry \/ ForgeRegistry \/ Host \/ InboundRegistry

SpecRegistry == Init /\ [][NextRegistry]_vars

----------------------------------------------------------------------------
(* The tools of the main group only, called in the runner of the main group *)
(* and in the runner of another group, which can also restart the host and  *)
(* send messages.                                                           *)

ToolsFocus ==
    [tools |-> (Writers \X {"pull_and_deploy", "test_container_build"})
                 \cup {<<"alice", "register_group">>, <<"alice", "restart">>,
                       <<"alice", "message">>},
     forgers |-> {},
     types |-> {},
     svals |-> {},
     others |-> FALSE,
     ids |-> {},
     files |-> {<<>>},
     claims |-> {}]

ToolWriteTools == ToolWriteOf(ToolsFocus)

ToolRefusesTools == ToolRefusesOf(ToolsFocus)

NextTools == ToolWriteTools \/ ToolRefusesTools \/ Host

SpecTools == Init /\ [][NextTools]_vars

----------------------------------------------------------------------------
(* Requests the host refuses: messages and schedules for the conversation   *)
(* of another group, a cancel of the main group's task, a registration and  *)
(* a deploy out of a namespace that is not the main group's; and a restart  *)
(* out of such a namespace, which the host does not refuse.                 *)

RefusalFocus ==
    [tools |-> {<<"main", "schedule_task">>, <<"alice", "message">>,
                <<"alice", "restart">>},
     forgers |-> {"alice"},
     types |-> {"message", "schedule_task", "cancel_task", "register_group",
                "pull_and_deploy"},
     svals |-> {<<"cron", CronEvery>>},
     others |-> TRUE,
     ids |-> {1},
     files |-> {<<>>},
     claims |-> {<<Absent, FALSE, Absent>>}]

ToolWriteRefusal == ToolWriteOf(RefusalFocus)

ForgeRefusal == ForgeOf(RefusalFocus)

NextRefusal == ToolWriteRefusal \/ ForgeRefusal \/ Host

SpecRefusal == Init /\ [][NextRefusal]_vars

----------------------------------------------------------------------------
(* One invocation of the main group that tells the user and then asks for   *)
(* a restart, a rebuild or a deploy: its tool calls come one after the      *)
(* other, each file renamed before the next is begun.                       *)

NoticeFocus ==
    [tools |-> {<<"main", "message">>, <<"main", "restart">>,
                <<"main", "rebuild">>, <<"main", "pull_and_deploy">>},
     forgers |-> {},
     types |-> {},
     svals |-> {},
     others |-> FALSE,
     ids |-> {},
     files |-> {<<>>},
     claims |-> {}]

\* writeIpcFile is synchronous: the runner begins no file before the last
\* one has its name
ToolWriteNotice ==
    /\ \A f \in mailbox : f.whole
    /\ ToolWriteOf(NoticeFocus)

NextNotice == ToolWriteNotice \/ Host

SpecNotice == Init /\ [][NextNotice]_vars

----------------------------------------------------------------------------
(* Requests that wait while the process is down: messages of two groups and *)
(* a restart; the service manager starts the process again and its timers   *)
(* fire.                                                                    *)

DurableFocus ==
    [tools |-> {<<"main", "message">>, <<"alice", "message">>,
                <<"alice", "restart">>},
     forgers |-> {},
     types |-> {},
     svals |-> {},
     others |-> FALSE,
     ids |-> {},
     files |-> {<<>>},
     claims |-> {}]

ToolWriteDurable == ToolWriteOf(DurableFocus)

NextDurable == ToolWriteDurable \/ Host

SpecDurable ==
    /\ Init
    /\ [][NextDurable]_vars
    /\ WF_vars(PollStep)
    /\ WF_vars(Relaunch)

----------------------------------------------------------------------------
(* The watcher: further calls of startIpcWatcher, cycles with requests,     *)
(* failing listings and restarts.                                           *)

WatcherFocus ==
    [tools |-> {<<"alice", "message">>, <<"alice", "restart">>},
     forgers |-> {},
     types |-> {},
     svals |-> {},
     others |-> FALSE,
     ids |-> {},
     files |-> {<<>>},
     claims |-> {}]

ToolWriteWatcher == ToolWriteOf(WatcherFocus)

NextWatcher == ToolWriteWatcher \/ Host \/ PollReadFail \/ StartIpcWatcherAgain

SpecWatcher == Init /\ [][NextWatcher]_vars

----------------------------------------------------------------------------
(* The router: every kind of inbound message, for the main conversation and *)
(* for a conversation on Discord.                                           *)

RouterJids == {"jid_main", "jid_bob"}

InboundRouter == InboundOf(RouterJids, InboundMessages)

NextRouter == InboundRouter \/ InvocationClosing \/ InvocationExit

SpecRouter == Init /\ [][NextRouter]_vars

----------------------------------------------------------------------------
(* The scheduler: one-shot and interval tasks of one conversation, the      *)
(* clock, and requests that pause and resume them.                          *)

SchedulerFocus ==
    [tools |-> {<<"alice", "schedule_task">>},
     forgers |-> {"alice"},
     types |-> {"restart", "message", "resume_task"},
     svals |-> {<<"once", OnceGood>>, <<"interval", <<"5">>>>},
     others |-> FALSE,
     ids |-> {1},
     files |-> {<<>>},
     claims |-> {<<Absent, FALSE, Absent>>}]

ToolWriteScheduler == ToolWriteOf(SchedulerFocus)

ForgeScheduler == ForgeOf(SchedulerFocus)

NextScheduler ==
    \/ ToolWriteScheduler
    \/ ForgeScheduler
    \/ Host
    \/ AdvanceClock
    \/ SchedulerTick

SpecScheduler == Init /\ [][NextScheduler]_vars

----------------------------------------------------------------------------
(* Claims *)

\* a step of the poll loop that handled a request file
Handles == acted' # acted

\* the request handled by such a step was a parsed object of the tasks queue
TaskObject(h) == h.q = "tasks" /\ h.body = "object" /\ h.whole

MessageObject(h) == h.q = "messages" /\ h.body = "object" /\ h.whole

\* C1: a privileged-only action found in the tasks queue of a namespace other
\* than MAIN_GROUP_FOLDER has no effect: no registration, no metadata sync,
\* no build, no process exit, nothing stored or sent
C1_PrivilegedOnlyRejected ==
    [][(/\ Handles
        /\ TaskObject(last')
        /\ last'.ns # MAIN_GROUP_FOLDER
        /\ last'.data.type \in PrivilegedTypes)
         => (UNCHANGED hostVars /\ alive' = alive /\ sent' = sent)]_vars

\* the requests that differ from r only in the identity fields
IdentityClaims == {Absent, MAIN_GROUP_FOLDER, "alice"}

IdentityVariants(r) ==
    {WithIdentity(r, gf, im, cb) :
        gf \in IdentityClaims, im \in BOOLEAN, cb \in {Absent, MAIN_GROUP_FOLDER}}

\* how a handled request ended, for an outcome of processTaskIpc
EndsAs(out, ended) ==
    CASE out = "return" -> ended = "return"
      [] out = "exit"   -> ended = "exit"
      [] OTHER          -> ended \in {"error", "lost"}

\* C2: the step the host takes for a request is the step it takes for every
\* request that differs from it only in groupFolder, isMain and createdBy:
\* same accept/reject decision, same resulting state
C2_IdentityIgnored ==
    [][Handles =>
         LET h == last'
             isMain == h.ns = MAIN_GROUP_FOLDER
         IN  \A v \in IdentityVariants(h.data) :
               /\ TaskObject(h) =>
                    \E env \in EnvOf(v.type) :
                       LET r == processTaskIpc(v, h.ns, isMain, HostState, env, h.id)
                       IN  r.st = HostState' /\ EndsAs(r.out, h.out)
               /\ MessageObject(h) =>
                    LET d == messageDecision(
                                 File(h.id, h.ns, h.q, "json", TRUE, "object", v),
                                 h.ns, isMain, registeredGroups)
                    IN  (d = "send") <=> (h.out \in {"sent", "error"})]_vars

\* a register_group request claiming isMain, found in alice's namespace, has
\* been handled and jid_new is still unregistered
C2_Witness ==
    /\ last.ns = "alice"
    /\ last.data.type = "register_group"
    /\ last.data.isMain
    /\ last.data.folder = "carol"
    /\ last.out = "return"
    /\ registeredGroups["jid_new"] = NoGroup

\* C4: a message out of a namespace other than MAIN_GROUP_FOLDER reaches
\* the channel only when its chatJid is registered to the group whose folder
\* is that namespace; otherwise nothing is sent
C4_OwnConversationOnly ==
    [][/\ \A s \in sent' \ sent :
            s.from # MAIN_GROUP_FOLDER => registeredGroups[s.jid] = s.from
       /\ (/\ Handles
           /\ MessageObject(last')
           /\ last'.ns # MAIN_GROUP_FOLDER
           /\ registeredGroups[last'.data.jid] # last'.ns) => sent' = sent]_vars

\* alice's own message went out, her message to bob's conversation was
\* dropped, and nothing of hers has reached bob's conversation
C4_Witness ==
    /\ last.ns = "alice"
    /\ last.q = "messages"
    /\ last.data.jid = "jid_bob"
    /\ last.out = "dropped"
    /\ \E s \in sent : s.from = "alice" /\ s.jid = "jid_alice"
    /\ \A s \in sent : s.jid # "jid_bob"

\* C6: no request file is acted on more than once, whatever the number of
\* poll cycles and restarts
C6_AtMostOnce == \A i \in FileIds : acted[i] <= 1

\* a restart request was consumed, the process came back, and a new poll
\* cycle has gone through the first namespace again
C6_Witness ==
    /\ last.out = "exit"
    /\ acted[last.id] = 1
    /\ alive
    /\ poll.pc = "scanM"
    /\ Len(poll.todo) = 1

\* C7: a request that does not parse, or whose handling throws, lies in
\* errors/ once the loop body is done with it, and stays there
C7_FailedRequestsKept ==
    [][/\ errors \subseteq errors'
       /\ (Handles /\ last'.out \in {"error", "lost"}) =>
             errorFile(last', last'.ns) \in errors']_vars

\* C8: whatever the loop body reads is the complete text of a request
C8_NeverPartial == [][Handles => last'.whole]_vars

\* a request was listed and handled while an older tool call of the same
\* namespace and queue was still writing under its temporary name
C8_Witness ==
    /\ last.id = 2
    /\ last.data.type # Absent
    /\ \E f \in mailbox :
          /\ f.id = 1
          /\ ~f.whole
          /\ f.ns = last.ns
          /\ f.q = last.q

\* C3: a schedule_task found in a namespace other than MAIN_GROUP_FOLDER
\* whose targetJid belongs to another group creates no task, and every task
\* created out of such a namespace has that namespace as its group_folder
C3_ScheduleForSelfOnly ==
    [][/\ (/\ Handles
           /\ TaskObject(last')
           /\ last'.data.type = "schedule_task"
           /\ last'.ns # MAIN_GROUP_FOLDER
           /\ registeredGroups[last'.data.jid] # last'.ns) => tasks' = tasks
       /\ \A t \in DOMAIN tasks' :
             createdFrom'[t] # MAIN_GROUP_FOLDER =>
                 tasks'[t].group_folder = createdFrom'[t]]_vars

\* alice has a task of her own, and her schedule_task for bob's conversation
\* has been handled without a second one appearing
C3_Witness ==
    /\ last.ns = "alice"
    /\ last.data.type = "schedule_task"
    /\ last.data.jid = "jid_bob"
    /\ last.out = "return"
    /\ DOMAIN tasks = {1}
    /\ createdFrom[1] = "alice"
    /\ tasks[1].group_folder = "alice"

\* C5: pause_task, resume_task and cancel_task found in a namespace other
\* than MAIN_GROUP_FOLDER leave the task store as it is unless the task
\* exists and its stored group_folder is that namespace
C5_OwnTasksOnly ==
    [][(/\ Handles
        /\ TaskObject(last')
        /\ last'.data.type \in {"pause_task", "resume_task", "cancel_task"}
        /\ last'.ns # MAIN_GROUP_FOLDER
        /\ ~(/\ last'.data.taskId \in DOMAIN tasks
             /\ tasks[last'.data.taskId].group_folder = last'.ns))
          => tasks' = tasks]_vars

\* main scheduled a task for bob; alice's cancel_task for it, carrying bob's
\* name in the payload, has been handled and the task is still there
C5_Witness ==
    /\ last.ns = "alice"
    /\ last.data.type = "cancel_task"
    /\ last.data.groupFolder = "bob"
    /\ last.data.taskId = 1
    /\ 1 \in DOMAIN tasks
    /\ tasks[1].group_folder = "bob"
    /\ createdFrom[1] = MAIN_GROUP_FOLDER
    /\ tasks[1].status = "active"

\* a schedule the contract calls invalid
InvalidSchedule(stype, svalue) ==
    \/ stype = "cron" /\ ~cronParses(svalue)
    \/ stype = "interval" /\ ~IsPositiveNumber(svalue)
    \/ stype = "once" /\ ~dateValid(svalue)

\* C9: a schedule_task whose cron string does not parse, whose interval is
\* not a positive number or whose one-shot value is not a valid instant
\* creates no task
C9_InvalidScheduleRejected ==
    [][(/\ Handles
        /\ TaskObject(last')
        /\ last'.data.type = "schedule_task"
        /\ InvalidSchedule(last'.data.schedule_type, last'.data.schedule_value))
          => tasks' = tasks]_vars

\* C10: every stored task has schedule_type cron, interval or once and
\* status active or paused
C10_TaskRecordDomains ==
    \A t \in DOMAIN tasks :
        /\ tasks[t].schedule_type \in ScheduleTypes
        /\ tasks[t].status \in {"active", "paused"}

\* the namespaces the current poll cycle has not started on yet
NotStarted(p) ==
    CASE p.pc = "idle"  -> <<>>
      [] p.pc = "scanM" -> p.todo
      [] OTHER          -> Tail(p.todo)

\* C11: when a request of one namespace is malformed or its handling throws,
\* the cycle goes on: every namespace it had not started on is still to be
\* visited in this cycle, and the process is alive
C11_OtherNamespacesServed ==
    [][(Handles /\ last'.out \in {"error", "lost"}) =>
          /\ alive'
          /\ NotStarted(poll') = NotStarted(poll)]_vars

\* the handling of a task request of one namespace threw, and the same cycle
\* is now at the other namespace, whose request is waiting to be listed
C11_Witness ==
    /\ last.out = "lost"
    /\ poll.pc = "scanM"
    /\ Len(poll.todo) = 1
    /\ Head(poll.todo) # last.ns
    /\ \E f \in mailbox : f.ns = Head(poll.todo) /\ f.ext = "json"

\* C12: the poll loop does not stop on its own: whatever a cycle meets
\* (requests that fail, a base directory that cannot be listed), the timer of
\* the next cycle gets set, unless the process has been terminated
C12_LoopGoesOn == []<>(~alive \/ poll.pc = "idle")

\* a request has failed in an earlier cycle, then a listing of the base
\* directory failed, and the cycle after that is under way
C12_Witness ==
    /\ errors # {}
    /\ last = ReadFailed
    /\ alive
    /\ poll.pc = "scanM"

\* the action types whose handlers call process.exit
Destructive == {"restart", "rebuild", "pull_and_deploy"}

\* C13: the host process ends only in the handling of a restart, rebuild or
\* pull_and_deploy request: no other type, unknown type, rejected or
\* malformed request ends it
C13_OnlyDestructiveExits ==
    [][(alive /\ ~alive') =>
          /\ Handles
          /\ TaskObject(last')
          /\ last'.data.type \in Destructive]_vars

\* a file that does not parse has gone to errors/, a request of an unknown
\* type has just been handled, and the process is running
C13_Witness ==
    /\ last.data.type = "no_such_type"
    /\ last.out = "return"
    /\ \E e \in errors : e.body = "garbage"
    /\ alive

\* position of the first occurrence of x in the sequence s, 0 when absent
IndexOf(s, x) ==
    IF \E i \in 1..Len(s) : s[i] = x
    THEN CHOOSE i \in 1..Len(s) : s[i] = x /\ \A j \in 1..(i - 1) : s[j] # x
    ELSE 0

\* C14: when the build of a pull_and_deploy fails, the reset to the saved
\* revision is attempted after it and the rollback is over before the exit,
\* which comes last and comes whether or not the rollback worked
C14_RollbackBeforeExit ==
    [][(/\ Handles
        /\ TaskObject(last')
        /\ last'.data.type = "pull_and_deploy"
        /\ IndexOf(steps', "build failed") > 0) =>
          LET s     == steps'
              undo  == {"reset previous", "reset previous failed"}
              tried == {i \in 1..Len(s) : s[i] \in undo}
          IN  /\ tried # {}
              /\ \A i \in tried : IndexOf(s, "build failed") < i /\ i < Len(s)
              /\ s[Len(s)] = "exit"
              /\ IndexOf(s, "reset previous") > 0 =>
                    /\ head' = "previous"
                    /\ s[IndexOf(s, "reset previous") + 1] \in {"rebuild", "rebuild failed"}
              /\ ~alive']_vars

\* a deploy whose build failed and whose rollback build failed too has
\* ended the process with the saved revision checked out
C14_Witness ==
    /\ last.data.type = "pull_and_deploy"
    /\ steps = <<"pull", "build failed", "reset previous", "rebuild failed", "exit">>
    /\ head = "previous"
    /\ ~alive

\* C15 as stated: every restart, rebuild or pull_and_deploy of the main
\* group ends with the process terminating
C15_AlwaysTerminates ==
    [][(/\ Handles
        /\ TaskObject(last')
        /\ last'.ns = MAIN_GROUP_FOLDER
        /\ last'.data.type \in Destructive) => ~alive']_vars

\* C15, amended: restart and rebuild of the main group always end the
\* process; pull_and_deploy ends it once the remote branch has been checked
\* out, and when that fails nothing is built, the revision stays and the
\* process keeps running
C15_TerminatesOncePulled ==
    [][(/\ Handles
        /\ TaskObject(last')
        /\ last'.ns = MAIN_GROUP_FOLDER
        /\ last'.data.type \in Destructive) =>
          IF last'.data.type = "pull_and_deploy" /\ steps' = <<"pull failed">>
          THEN /\ alive'
               /\ head' = head
               /\ builtBy' = builtBy
               /\ last'.out = "return"
          ELSE /\ ~alive'
               /\ steps'[Len(steps')] = "exit"
               /\ last'.id \in builtBy']_vars

\* the main group's restart has built, although the build failed, and exited
C15_Witness ==
    /\ last.ns = MAIN_GROUP_FOLDER
    /\ last.data.type = "restart"
    /\ steps = <<"build failed", "exit">>
    /\ ~alive

Behind(p) == {p.list[i] : i \in 2..Len(p.list)}

\* C17: within a sub-queue the listed requests are handled in ascending
\* order of their filenames: none is handled while one with a smaller
\* filename of the same listing still waits
C17_FilenameOrder ==
    [][Handles => \A j \in Behind(poll) : last'.id < j]_vars

\* a pause_task or resume_task request for the task id
StatusRequest(type, id) == Req(type, Absent, Absent, <<>>, id, Absent)

\* C18: for a task the requester may act on, pause_task and resume_task
\* change the status and nothing else; pause then resume ends at active
\* with next_run and the other fields as before; pausing a paused task and
\* resuming an active one change nothing
C18_PauseResumeRoundTrip ==
    [][(/\ Handles
        /\ TaskObject(last')
        /\ last'.data.type \in {"pause_task", "resume_task"}
        /\ taskAuthorized(HostState, last'.data.taskId, last'.ns,
                          last'.ns = MAIN_GROUP_FOLDER)) =>
          LET id     == last'.data.taskId
              ns     == last'.ns
              isMain == ns = MAIN_GROUP_FOLDER
              pause(st)  == statusTask(StatusRequest("pause_task", id), ns, isMain, st).st
              resume(st) == statusTask(StatusRequest("resume_task", id), ns, isMain, st).st
              p      == pause(HostState)
              r      == resume(p)
          IN  /\ tasks' = [tasks EXCEPT ![id].status =
                              IF last'.data.type = "pause_task" THEN "paused"
                              ELSE "active"]
              /\ p.tasks = [tasks EXCEPT ![id].status = "paused"]
              /\ r.tasks = [tasks EXCEPT ![id].status = "active"]
              /\ pause(p).tasks = p.tasks
              /\ resume(r).tasks = r.tasks]_vars

\* the stored task has been paused and then resumed by its owner and is
\* again exactly what it was
C18_Witness ==
    /\ <<1, "paused">> \in updates
    /\ <<1, "active">> \in updates
    /\ last.ns = "alice"
    /\ last.data.type = "resume_task"
    /\ last.data.taskId = 1
    /\ tasks = <<StoredTask>>

\* C19: a stored once task has as next_run the instant at which the clocks
\* of the configured zone show the date and time of its schedule_value, in
\* ISO form
C19_OnceInConfiguredZone ==
    \A t \in DOMAIN tasks :
        tasks[t].schedule_type = "once" =>
            tasks[t].next_run.iso =
                toISOString(InstantIn(WallClock(tasks[t].schedule_value), TIMEZONE))

\* C20: no conversation ever has more than one invocation that has been
\* started and has not exited
C20_OneInvocationPerConversation ==
    \A jid \in Jids : queue[jid].live <= 1

\* an invocation is live after an earlier one has completed, it has been
\* piped a message and entries wait behind it
C20_Witness ==
    \E jid \in Jids :
        /\ queue[jid].live = 1
        /\ queue[jid].finished # <<>>
        /\ queue[jid].input > 0
        /\ queue[jid].pending # <<>>

\* the step is onInboundMessage reaching queue.sendMessage for jid: the
\* message was piped, or enqueued after sendMessage had refused it
Offered(jid) ==
    /\ jid \notin DiscordJids
    /\ queue'[jid] # queue[jid]
    /\ routed'.jid = jid
    /\ routed'.did \in {"piped", "enqueued"}

\* C21: sendMessage succeeds exactly when an invocation of the conversation
\* is active and has not begun shutting down, and then the text is
\* delivered into it and nothing else changes; when it fails, nothing is
\* delivered into an invocation
C21_PipedIffActive ==
    [][\A jid \in Jids :
         Offered(jid) =>
           /\ (routed'.did = "piped") <=>
                 (queue[jid].live > 0 /\ queue[jid].state # "closing")
           /\ routed'.did = "piped" =>
                 queue'[jid] = [queue[jid] EXCEPT !.input = @ + 1]
           /\ (routed'.did = "enqueued" /\ queue[jid].live > 0) =>
                 /\ queue'[jid].input = queue[jid].input
                 /\ queue'[jid].current = queue[jid].current]_vars

\* a message for a conversation whose invocation, piped one text earlier, is
\* shutting down has been refused by sendMessage and enqueued
C21_Witness ==
    /\ routed.jid = "jid_alice"
    /\ routed.did = "enqueued"
    /\ queue["jid_alice"].state = "closing"
    /\ queue["jid_alice"].input = 1
    /\ queue["jid_alice"].pending # <<>>

\* the step is the completion of the invocation of jid
Exits(jid) ==
    /\ queue'[jid] # queue[jid]
    /\ routed'.jid = jid
    /\ routed'.did \in ExitCauses

HasStarted(jid, e) ==
    \E i \in DOMAIN queue[jid].started : queue[jid].started[i] = e

\* C22: a completion, whatever its cause, starts the first pending entry of
\* the conversation, or leaves the conversation idle when none waits; and
\* every entry that has been enqueued is started in the end
C22_NeverStarved ==
    /\ [][\A jid \in Jids :
            Exits(jid) =>
              IF queue[jid].pending # <<>>
              THEN /\ queue'[jid].state = "running"
                   /\ queue'[jid].live = 1
                   /\ queue'[jid].current = Head(queue[jid].pending)
                   /\ queue'[jid].pending = Tail(queue[jid].pending)
              ELSE /\ queue'[jid].state = "idle"
                   /\ queue'[jid].live = 0]_vars
    /\ \A jid \in QueueJids, e \in 1..MaxEntries :
            (queue[jid].arrived >= e) ~> HasStarted(jid, e)

\* an invocation has crashed while an entry waited, and that entry runs
C22_Witness ==
    /\ routed.jid = "jid_alice"
    /\ routed.did = "crash"
    /\ queue["jid_alice"].state = "running"
    /\ queue["jid_alice"].current = 2
    /\ queue["jid_alice"].finished = <<1>>

\* C23: the entries of a conversation are started in the order they were
\* enqueued, and each one only after the one before it has finished
C23_FifoPerConversation ==
    \A jid \in Jids :
        LET g == queue[jid]
        IN  /\ \A i \in DOMAIN g.started : g.started[i] = i
            /\ \A i \in DOMAIN g.finished : g.finished[i] = g.started[i]
            /\ Len(g.started) - Len(g.finished) \in {0, 1}

\* three entries were enqueued for one conversation while the first ran; the
\* first two have finished in turn and the third runs
C23_Witness ==
    \E jid \in Jids :
        /\ queue[jid].started = <<1, 2, 3>>
        /\ queue[jid].finished = <<1, 2>>
        /\ queue[jid].current = 3

\* C24: a once task that has fired has fired once, and is and stays in
\* the terminal state the firing put it in
C24_OnceFiresOnce ==
    \A i \in DOMAIN tasks :
        (tasks[i].schedule_type = "once" /\ fired[i] # <<>>) =>
            /\ Len(fired[i]) = 1
            /\ tasks[i].status = "fired"

\* C25: whenever an interval task fires, its next_run becomes the time of
\* the firing plus the milliseconds of its schedule_value, and it stays
\* active
C25_IntervalFromFireTime ==
    [][\A i \in DOMAIN tasks :
         (fired'[i] # fired[i] /\ tasks[i].schedule_type = "interval") =>
           /\ fired'[i] = Append(fired[i], clock.now)
           /\ tasks'[i].next_run.ms = clock.now + parseInt(tasks[i].schedule_value).n
           /\ tasks'[i].status = "active"]_vars

\* an interval task has fired twice, the second time later than it was due,
\* and its next run is counted from that second firing
C25_Witness ==
    \E i \in DOMAIN tasks :
        /\ tasks[i].schedule_type = "interval"
        /\ Len(fired[i]) = 2
        /\ fired[i][2] > fired[i][1] + parseInt(tasks[i].schedule_value).n
        /\ tasks[i].next_run.ms = fired[i][2] + parseInt(tasks[i].schedule_value).n

\* the last thing routed was an inbound message
WasInbound == routed.did \in {"ignored", "piped", "enqueued"}

\* C26: a message that does not match the trigger, for a registered group
\* that requires it, is neither enqueued nor piped and sets no typing
\* indicator, on Discord too
C26_TriggerGates ==
    (/\ WasInbound
     /\ registeredGroups[routed.jid] # NoGroup
     /\ routed.requiresTrigger
     /\ ~routed.mentioned)
        => (routed.did = "ignored" /\ ~routed.typing)

----------------------------------------------------------------------------
(* The registry of conversations.                                           *)

\* one sequence begins the other
IsPrefix(a, b) == Len(a) <= Len(b) /\ SubSeq(b, 1, Len(a)) = a

\* the step handled a register_group of the main group that reached
\* registerGroup
Registers ==
    /\ Handles
    /\ TaskObject(last')
    /\ last'.ns = MAIN_GROUP_FOLDER
    /\ last'.data.type = "register_group"
    /\ last'.data.jid # Absent
    /\ last'.data.folder # Absent
    /\ isValidGroupFolder(last'.data.folder)

----------------------------------------------------------------------------
(* The tools of the main group in the runner of another group.              *)

\* a tool call began to write this file
WrittenByTool(f) == f.ext = "tmp"

\* C29: in a runner that is not the main group's, a call of register_group,
\* pull_and_deploy or test_container_build returns an error, puts no file
\* into the mailbox and leaves restarting.flag and .build-result.json as
\* they were; the files these tools write are in the main group's namespace
C29_MainOnlyToolsRefuse ==
    [][/\ \A ns \in Writers \ {MAIN_GROUP_FOLDER}, tool \in MainOnlyTools :
             toolCall(ns, tool).isError
       /\ refused' # refused =>
             /\ refused'.ns # MAIN_GROUP_FOLDER
             /\ refused'.tool \in MainOnlyTools
             /\ mailbox' = mailbox
             /\ nextId' = nextId
             /\ restartFlag' = restartFlag
             /\ buildResult' = buildResult
       /\ \A f \in mailbox' \ mailbox :
             (WrittenByTool(f) /\ f.data.type \in MainOnlyTools)
               => f.ns = MAIN_GROUP_FOLDER]_vars

\* the runner of another group refused pull_and_deploy while the result of the main group's test build was there
\* and no restarting.flag was in its folder
C29_Witness ==
    /\ refused = [ns |-> "alice", tool |-> "pull_and_deploy"]
    /\ buildResult # "none"
    /\ restartFlag = {}
    /\ \A f \in mailbox : f.ns = MAIN_GROUP_FOLDER

----------------------------------------------------------------------------
(* Requests refused for authorization.                                      *)

\* the request h, found in a namespace that is not the main group's, is one
\* the host refuses for what that namespace may do: a message or a schedule
\* for the conversation of another group, a pause, resume or cancel of the
\* task of another group, or a type of the main group only
RefusedForAuthorization(h) ==
    /\ h.ns # MAIN_GROUP_FOLDER
    /\ \/ /\ MessageObject(h)
          /\ h.data.type = "message"
          /\ h.data.jid # Absent
          /\ registeredGroups[h.data.jid] # h.ns
       \/ /\ TaskObject(h)
          /\ h.data.type = "schedule_task"
          /\ h.data.jid # Absent
          /\ registeredGroups[h.data.jid] \notin {NoGroup, h.ns}
       \/ /\ TaskObject(h)
          /\ h.data.type \in {"pause_task", "resume_task", "cancel_task"}
          /\ h.data.taskId \in DOMAIN tasks
          /\ tasks[h.data.taskId].group_folder # h.ns
       \/ /\ TaskObject(h)
          /\ h.data.type \in {"register_group", "refresh_groups",
                               "pull_and_deploy", "test_container_build"}

\* C30: handling a request that is refused for authorization changes
\* neither the task store, the registry, the builds nor what was sent, the
\* host goes on, and the file is gone from the mailbox without a copy in
\* errors/, handled once
C30_RefusedNotApplied ==
    [][(Handles /\ RefusedForAuthorization(last')) =>
          /\ UNCHANGED hostVars
          /\ sent' = sent
          /\ alive' = alive
          /\ errors' = errors
          /\ ~exists(mailbox', last'.id)
          /\ acted'[last'.id] = 1]_vars

\* the main group has a task; alice's cancel of it was refused and the poll
\* loop went on to other cycles with the task stored and nothing in errors/
C30_Witness ==
    /\ last.ns = "alice"
    /\ TaskObject(last)
    /\ last.data.type = "cancel_task"
    /\ last.data.taskId = 1
    /\ 1 \in DOMAIN tasks
    /\ tasks[1].group_folder = MAIN_GROUP_FOLDER
    /\ errors = {}
    /\ mailbox = {}
    /\ poll.pc = "idle"

----------------------------------------------------------------------------
(* Requests that end the process.                                           *)

\* C31: the process exits only in the handler of a restart, rebuild or
\* pull_and_deploy request that had not been handled before and whose file
\* is gone from the mailbox by then, so the process that is started next
\* does not find the request
C31_DestructiveOnce ==
    [][/\ (alive /\ ~alive') =>
             /\ TaskObject(last')
             /\ last'.data.type \in Destructive
             /\ acted[last'.id] = 0
             /\ ~exists(mailbox', last'.id)
       /\ (~alive /\ alive') =>
             /\ ~exists(mailbox', last.id)
             /\ acted'[last.id] = 1]_vars

\* two requests have each ended the process once, the process is running
\* again and found nothing to do
C31_Witness ==
    /\ alive
    /\ last.out = "exit"
    /\ last.data.type = "restart"
    /\ builtBy = {1, 2}
    /\ acted[1] = 1
    /\ acted[2] = 1
    /\ mailbox = {}
    /\ poll.pc = "idle"

\* the message request f came to an end in the loop: sent, or moved to
\* errors/ when the channel failed
Delivered(f) ==
    \/ \E m \in sent' : m.id = f.id
    \/ \E e \in errors' : e.id = f.id

\* C32: when the process exits in the handler of a restart, rebuild or
\* pull_and_deploy request, no message request that the same namespace wrote
\* before it is still waiting in the mailbox
C32_NoticeBeforeExit ==
    [][(alive /\ ~alive') =>
          \A f \in mailbox' :
             (f.ns = last'.ns /\ f.q = "messages" /\ f.id < last'.id)
               => Delivered(f)]_vars

\* the request file i lies in its sub-queue under its final name
Pending(i) == \E f \in mailbox : f.id = i /\ f.ext = "json"

----------------------------------------------------------------------------
(* The single reader.                                                       *)

\* C34: at most one cycle of processIpcFiles is under way, no timer is set
\* while it is, and at most one timer is set at any time; the cycle under
\* way is the one the poll position belongs to
C34_CyclesDoNotOverlap ==
    /\ watcher.running <= 1
    /\ watcher.pending <= 1
    /\ watcher.running = 1 => watcher.pending = 0
    /\ watcher.running = 1 <=> (alive /\ poll.pc # "idle")

\* a cycle ended in a failed listing, and a later cycle is handling a task
\* request with no timer set
C34_Witness ==
    /\ last = ReadFailed
    /\ watcher.running = 1
    /\ watcher.pending = 0
    /\ poll.pc = "tasks"

\* C35: a running process has one poll loop, and a startIpcWatcher call
\* in a process whose loop was started starts no loop, sets no timer and
\* leaves the cycle under way as it is
C35_SingleReader ==
    /\ [](alive => watcher.loops = 1)
    /\ [][(watcher.ipcWatcherRunning /\ watcher'.calls = watcher.calls + 1) =>
             /\ watcher'.loops = watcher.loops
             /\ watcher'.pending = watcher.pending
             /\ watcher'.running = watcher.running
             /\ poll' = poll]_vars

\* startIpcWatcher was called twice more in a process that has handled a
\* request, and one loop is there
C35_Witness ==
    /\ alive
    /\ watcher.calls = 3
    /\ watcher.loops = 1
    /\ watcher.ipcWatcherRunning
    /\ acted[1] = 1

----------------------------------------------------------------------------
(* Piping or enqueueing.                                                    *)

\* the message routed by the step passed the checks of the branch of the
\* channels other than Discord, for a registered conversation
AcceptedInbound ==
    /\ <<queue, routed>>' # <<queue, routed>>
    /\ routed'.did \in {"ignored", "piped", "enqueued"}
    /\ routed'.jid \in Jids \ DiscordJids
    /\ registeredGroups[routed'.jid] # NoGroup
    /\ ~routed'.fromMe
    /\ routed'.channel
    /\ routed'.requiresTrigger => routed'.mentioned

----------------------------------------------------------------------------
(* The schedule_task tool.                                                  *)

\* the validation the tool is documented to make
PassesToolValidation(stype, svalue) ==
    CASE stype = "cron"     -> cronParses(svalue)
      [] stype = "interval" -> IsPositiveNumber(svalue)
      [] stype = "once"     -> dateValid(svalue) /\ ~hasZoneSuffix(svalue)
      [] OTHER              -> FALSE

\* C37: every schedule_task request the tool writes has a schedule value
\* that passes the validation: a cron string that parses, an interval that
\* is a positive integer, a one-shot value that is a date with no zone suffix
C37_ToolValidatesSchedule ==
    \A f \in mailbox :
        (WrittenByTool(f) /\ f.data.type = "schedule_task")
          => PassesToolValidation(f.data.schedule_type, f.data.schedule_value)

\* C38: a schedule_task request written by the tool in a runner that is not
\* the main group's has the runner's own chatJid as its targetJid
C38_ToolTargetsOwnChat ==
    \A f \in mailbox :
        (WrittenByTool(f) /\ f.data.type = "schedule_task"
           /\ f.ns # MAIN_GROUP_FOLDER)
          => f.data.jid = chatJid(f.ns)

\* the tool in alice's runner is writing a request for her own conversation
\* while a request of the main group's tool for bob's conversation lies in
\* the mailbox
C38_Witness ==
    /\ \E f \in mailbox :
          /\ WrittenByTool(f)
          /\ f.ns = "alice"
          /\ f.data.type = "schedule_task"
          /\ f.data.jid = "jid_alice"
    /\ \E f \in mailbox :
          /\ f.ns = MAIN_GROUP_FOLDER
          /\ f.data.type = "schedule_task"
          /\ f.data.createdBy = MAIN_GROUP_FOLDER
          /\ f.data.jid = "jid_bob"

----------------------------------------------------------------------------
(* Attachments: the send_message tool with every list of attachment names,  *)
(* and agents that save a file for sending.                                  *)

AttachFocus ==
    [tools |-> {<<"alice", "message">>, <<"alice", "restart">>},
     forgers |-> {},
     types |-> {},
     svals |-> {},
     others |-> FALSE,
     ids |-> {},
     files |-> AttachmentLists,
     claims |-> {}]

ToolWriteAttach == ToolWriteOf(AttachFocus)

NextAttach == ToolWriteAttach \/ SaveAttachment \/ Host

SpecAttach == Init /\ [][NextAttach]_vars

\* C39: every attachment path handed to the outbound send for a message of a
\* namespace is a file that lies directly in that namespace's attachments
\* directory when the message is handled
C39_AttachmentsInside ==
    [][\A m \in sent' \ sent :
         \A i \in 1..Len(m.files) :
            /\ m.files[i] \in attachments
            /\ Len(m.files[i]) = 3
            /\ m.files[i][1] = m.from
            /\ m.files[i][2] = "attachments"]_vars

====
